---- MODULE Spec2Model ----
(***************************************************************************)
(* A model of sec_parser: the table process_sec_json builds from one       *)
(* company's SEC facts, and the resolution methods of Stock that read it   *)
(* (get_metric, get_concept, the concept getters and their fallbacks).     *)
(*                                                                         *)
(* A date string "YYYY-MM-DD" is the tuple <<y, m, d>> of its zero-padded  *)
(* fields: Python compares such strings character by character, which is   *)
(* the lexicographic order of the fields (StrLE).  A datetime is its       *)
(* proleptic Gregorian ordinal (strptime / strftime convert).  Values are  *)
(* integers; a missing cell (NaN) is a column absent from the row's cells. *)
(* A call's outcome is a record: kind "ok" with the value, or the kind of  *)
(* the exception raised, with the name its message carries in detail.      *)
(* tag and row are bookkeeping: the column and the filing date the value   *)
(* was read from.                                                          *)
(*                                                                         *)
(* stock, pc, call, result: the Stock and a caller of its synchronous      *)
(* methods.  tasks: the coroutines running the async methods (the price    *)
(* and RSI fetches and the ratios awaiting them), each with the locals it  *)
(* keeps across its await.  requests: the requests sent to the price       *)
(* provider so far, in order.  clock: the wall clock of the machine, and   *)
(* last_update: what last_update.txt in the download directory holds       *)
(* (None when the file does not exist), both read by download_sec_data.    *)
(***************************************************************************)
EXTENDS Integers, Sequences, FiniteSets, TLC

VARIABLES stock, pc, call, result, tasks, requests, clock, last_update

vars == <<stock, pc, call, result, tasks, requests, clock, last_update>>

-----------------------------------------------------------------------------
(* Calendar: datetime.strptime, datetime.strftime, timedelta, relativedelta *)

None == <<>>

IsLeap(y) == (y % 4 = 0) /\ ((y % 100 # 0) \/ (y % 400 = 0))

DaysInMonth(y, m) ==
    IF m = 2 THEN (IF IsLeap(y) THEN 29 ELSE 28)
    ELSE IF m \in {4, 6, 9, 11} THEN 30 ELSE 31

DaysBeforeYear(y) ==
    (y - 1) * 365 + ((y - 1) \div 4) - ((y - 1) \div 100) + ((y - 1) \div 400)

RECURSIVE DaysBeforeMonth(_, _)
DaysBeforeMonth(y, m) ==
    IF m = 1 THEN 0 ELSE DaysBeforeMonth(y, m - 1) + DaysInMonth(y, m - 1)

\* the strings datetime.strptime(s, "%Y-%m-%d") accepts
IsDate(s) ==
    /\ s[1] \in 1..9999
    /\ s[2] \in 1..12
    /\ s[3] \in 1..DaysInMonth(s[1], s[2])

\* datetime.strptime(s, "%Y-%m-%d"), as the ordinal of the day
strptime(s) == DaysBeforeYear(s[1]) + DaysBeforeMonth(s[1], s[2]) + s[3]

RECURSIVE YearOfOrdinal(_, _)
YearOfOrdinal(n, y) ==
    IF DaysBeforeYear(y + 1) < n THEN YearOfOrdinal(n, y + 1) ELSE y

RECURSIVE MonthOfOrdinal(_, _, _)
MonthOfOrdinal(n, y, m) ==
    IF DaysBeforeMonth(y, m) + DaysInMonth(y, m) < n
    THEN MonthOfOrdinal(n, y, m + 1) ELSE m

\* dt.strftime("%Y-%m-%d") of the datetime with ordinal n
strftime(n) ==
    LET y == YearOfOrdinal(n, ((n - 1) \div 366) + 1)
        r == n - DaysBeforeYear(y)
        m == MonthOfOrdinal(r, y, 1)
    IN  <<y, m, r - DaysBeforeMonth(y, m)>>

\* dt - timedelta(weeks=w)
minus_weeks(dt, w) == dt - 7 * w

\* dt - relativedelta(years=1): the year before, the day clipped to the month
minus_one_year(dt) ==
    LET s == strftime(dt)
        d == IF s[3] > DaysInMonth(s[1] - 1, s[2])
             THEN DaysInMonth(s[1] - 1, s[2]) ELSE s[3]
    IN  strptime(<<s[1] - 1, s[2], d>>)

\* a <= b on date strings
StrLE(a, b) ==
    \/ a[1] < b[1]
    \/ a[1] = b[1] /\ a[2] < b[2]
    \/ a[1] = b[1] /\ a[2] = b[2] /\ a[3] <= b[3]

\* datetime.today().strftime("%Y-%m-%d"): the day the model runs on
Today == <<2023, 3, 1>>

-----------------------------------------------------------------------------
(* processor.process_sec_json: sec_data is the sequence of the entries in   *)
(* the order the loops visit them, each [item, unit, filed, val, fp].       *)

\* data[f"{item}_{unit}"][filing_date] = entry["val"];
\* data["annual"][filing_date] = True if entry["fp"] == "FY" else False
\* (dates keeps the insertion order of the keys of data["annual"])
RECURSIVE ProcessEntries(_, _)
ProcessEntries(entries, data) ==
    IF entries = <<>> THEN data
    ELSE LET entry == Head(entries)
             filing_date == entry.filed
             column == entry.item \o "_" \o entry.unit
             old == IF column \in DOMAIN data.series
                    THEN data.series[column] ELSE <<>>
         IN  ProcessEntries(Tail(entries),
                 [dates  |-> IF filing_date \in DOMAIN data.annual
                             THEN data.dates
                             ELSE Append(data.dates, filing_date),
                  annual |-> (filing_date :> (entry.fp = "FY")) @@ data.annual,
                  series |-> (column :> ((filing_date :> entry.val) @@ old))
                                 @@ data.series])

\* pd.DataFrame(data): one row per filing date, a cell where the column has it
DataFrame(data) ==
    [columns |-> DOMAIN data.series,
     rows    |-> [i \in 1..Len(data.dates) |->
                    LET d == data.dates[i]
                    IN  [filing_date |-> d,
                         annual |-> data.annual[d],
                         cells  |-> [c \in {k \in DOMAIN data.series :
                                              d \in DOMAIN data.series[k]}
                                       |-> data.series[c][d]]]]]

\* df.sort_index(): the rows in increasing order of the filing date string
RECURSIVE SortRows(_)
SortRows(rows) ==
    IF rows = <<>> THEN <<>>
    ELSE LET i == CHOOSE k \in 1..Len(rows) :
                     \A j \in 1..Len(rows) :
                        StrLE(rows[k].filing_date, rows[j].filing_date)
         IN  <<rows[i]>> \o
             SortRows(SubSeq(rows, 1, i - 1) \o SubSeq(rows, i + 1, Len(rows)))

\* the table left in the order the filing dates were first seen
unsorted_index(df) == df

sort_index(df) == [df EXCEPT !.rows = SortRows(df.rows)]

process_sec_json(sec_data) ==
    sort_index(DataFrame(ProcessEntries(sec_data,
        [dates |-> <<>>, annual |-> <<>>, series |-> <<>>])))

\* Stock.get_financials: the table process_sec_json saved for the ticker
get_financials(csv) == csv

-----------------------------------------------------------------------------
(* Outcomes of a call *)

Ok(v, tag, row) ==
    [kind |-> "ok", val |-> v, tag |-> tag, row |-> row, detail |-> ""]

\* raise ValueError("Could not find {period} {name} for ...")
ValueError(name) ==
    [kind |-> "ValueError", val |-> 0, tag |-> "", row |-> <<>>, detail |-> name]

\* df[column] on a table that has no such column
KeyError(column) ==
    [kind |-> "KeyError", val |-> 0, tag |-> "", row |-> <<>>, detail |-> column]

\* a value computed from other values
Value(v) == Ok(v, "", <<>>)

\* datetime.strptime on a string that is not a date of the calendar raises
\* ValueError("time data ... does not match format ...")
strptime_error ==
    [kind |-> "ValueError", val |-> 0, tag |-> "", row |-> <<>>,
     detail |-> "time data"]

-----------------------------------------------------------------------------
(* Stock.get_metric and Stock.get_concept *)

DefaultTolerance == 52

\* the annual filter dropped: every row kept
all_rows(rows) == rows

\* self.financials[self.financials["annual"] == True]
annual_rows(rows) == SelectSeq(rows, LAMBDA r : r.annual = TRUE)

\* df[df[column].notna()]
notna_rows(rows, column) == SelectSeq(rows, LAMBDA r : column \in DOMAIN r.cells)

\* df[df.index <= query_date]
not_after(rows, query_date) ==
    SelectSeq(rows, LAMBDA r : StrLE(r.filing_date, query_date))

\* the tolerance filter dropped: every row kept
any_age(rows, query_date, tolerance) == rows

\* df[df.index >= (strptime(query_date) - timedelta(weeks=tolerance)).strftime()]
within_tolerance(rows, query_date, tolerance) ==
    LET lo == strftime(minus_weeks(strptime(query_date), tolerance))
    IN  SelectSeq(rows, LAMBDA r : StrLE(lo, r.filing_date))

\* df[column].iloc[-1]
iloc_last(rows) == rows[Len(rows)]

get_metric(self, metric, units, query_date, quarterly, tolerance) ==
    LET qd == IF query_date = None THEN Today ELSE query_date
        df0 == IF ~quarterly THEN annual_rows(self.financials.rows)
               ELSE self.financials.rows
        column == metric \o "_" \o units
    IN  IF column \notin self.financials.columns THEN KeyError(column)
        ELSE IF ~IsDate(qd) THEN strptime_error
        ELSE LET df == within_tolerance(
                           not_after(notna_rows(df0, column), qd), qd, tolerance)
             IN  IF df = <<>> THEN ValueError(metric)
                 ELSE Ok(iloc_last(df).cells[column], metric,
                         iloc_last(df).filing_date)

RECURSIVE get_concept(_, _, _, _, _, _, _)
get_concept(self, concept, tags, units, query_date, quarterly, tolerance) ==
    IF tags = <<>> THEN ValueError(concept)
    ELSE LET r == get_metric(self, Head(tags), units, query_date, quarterly,
                             tolerance)
         IN  IF r.kind = "ValueError"
             THEN get_concept(self, concept, Tail(tags), units, query_date,
                              quarterly, tolerance)
             ELSE r

\* get_cash: the first primitive concept getter the resolution layer is run on
CashTags ==
    <<"Cash",
      "CashAndCashEquivalentsAtCarryingValue",
      "CashCashEquivalentsRestrictedCashAndRestrictedCashEquivalentsIncludingDisposalGroupAndDiscontinuedOperations",
      "CashCashEquivalentsRestrictedCashAndRestrictedCashEquivalents">>

get_cash(self, query_date, quarterly, tolerance) ==
    get_concept(self, "cash", CashTags, "USD", query_date, quarterly, tolerance)

-----------------------------------------------------------------------------
(* The primitive concept getters and the zero-substitution aggregates *)

\* try: return <direct>  except: <fallback>
or_else(direct, fallback) == IF direct.kind = "ok" THEN direct ELSE fallback

\* try: x = self.get_...(...)  except: x = 0
or_zero(r) == IF r.kind = "ok" THEN r.val ELSE 0

get_depreciation(self, query_date, quarterly, tolerance) ==
    get_concept(self, "depreciation", <<"Depreciation">>, "USD", query_date,
                quarterly, tolerance)

AmortizationTags ==
    <<"Amortization", "AmortizationOfIntangibleAssets",
      "AmortizationOfDebtDiscountPremium">>

get_amortization(self, query_date, quarterly, tolerance) ==
    get_concept(self, "amortization", AmortizationTags, "USD", query_date,
                quarterly, tolerance)

DepreciationAndAmortizationTags ==
    <<"DepreciationAndAmortization", "DepreciationDepletionAndAmortization",
      "DepreciationAmortizationAndAccretionNet",
      "OtherDepreciationAndAmortization">>

\* if depreciation == 0 and amortization == 0: raise ValueError
both_zero(a, b) == a = 0 /\ b = 0

\* depreciation + amortization, ValueError(name) when both are zero
sum_unless_both_zero(name, a, b) ==
    IF both_zero(a, b) THEN ValueError(name) ELSE Value(a + b)

\* depreciation + amortization, each 0 when its getter raises
get_depreciation_and_amortization(self, query_date, quarterly, tolerance) ==
    or_else(
        get_concept(self, "depreciation and amortization",
                    DepreciationAndAmortizationTags, "USD", query_date,
                    quarterly, tolerance),
        sum_unless_both_zero(
            "depreciation and amortization",
            or_zero(get_depreciation(self, query_date, quarterly, tolerance)),
            or_zero(get_amortization(self, query_date, quarterly, tolerance))))

CurrentDebtTags ==
    <<"LongTermDebtCurrent", "LongTermDebtAndCapitalLeaseObligationsCurrent",
      "DebtCurrent",
      "LongTermDebtMaturitiesRepaymentsOfPrincipalInNextTwelveMonths",
      "LinesOfCreditCurrent", "LineOfCredit", "OperatingLeaseLiabilityCurrent">>

get_current_debt(self, query_date, quarterly, tolerance) ==
    get_concept(self, "current debt", CurrentDebtTags, "USD", query_date,
                quarterly, tolerance)

NoncurrentDebtTags ==
    <<"LongTermDebtNoncurrent", "ConvertibleLongTermNotesPayable",
      "OperatingLeaseLiabilityNoncurrent", "UnsecuredLongTermDebt",
      "LongTermDebtAndCapitalLeaseObligations">>

get_noncurrent_debt(self, query_date, quarterly, tolerance) ==
    get_concept(self, "noncurrent debt", NoncurrentDebtTags, "USD", query_date,
                quarterly, tolerance)

TotalDebtTags == <<"LongTermDebt", "DebtAndCapitalLeaseObligations">>

\* current_debt + noncurrent_debt, each 0 when its getter raises
get_total_debt(self, query_date, quarterly, tolerance) ==
    or_else(
        get_concept(self, "total debt", TotalDebtTags, "USD", query_date,
                    quarterly, tolerance),
        sum_unless_both_zero(
            "total debt",
            or_zero(get_current_debt(self, query_date, quarterly, tolerance)),
            or_zero(get_noncurrent_debt(self, query_date, quarterly,
                                        tolerance))))

MarketableSecuritiesTags == <<"MarketableSecurities", "MarketableSecuritiesCurrent">>

get_marketable_securities(self, query_date, quarterly, tolerance) ==
    get_concept(self, "marketable securities", MarketableSecuritiesTags, "USD",
                query_date, quarterly, tolerance)

get_accounts_receivable(self, query_date, quarterly, tolerance) ==
    get_concept(self, "accounts receivable", <<"AccountsReceivableNetCurrent">>,
                "USD", query_date, quarterly, tolerance)

InventoryTags == <<"InventoryNet", "InventoryNetCurrent">>

get_inventory(self, query_date, quarterly, tolerance) ==
    get_concept(self, "inventory", InventoryTags, "USD", query_date, quarterly,
                tolerance)

OtherCurrentAssetsTags ==
    <<"OtherAssetsCurrent", "PrepaidExpenseAndOtherAssetsCurrent">>

get_other_current_assets(self, query_date, quarterly, tolerance) ==
    get_concept(self, "other current assets", OtherCurrentAssetsTags, "USD",
                query_date, quarterly, tolerance)

\* failing only when every term is zero
every_term_zero(total, terms) == \A i \in DOMAIN terms : terms[i] = 0

\* if current_assets == 0: raise ValueError  (the sum, not the terms)
sum_is_zero(total, terms) == total = 0

RECURSIVE Sum(_)
Sum(terms) == IF terms = <<>> THEN 0 ELSE Head(terms) + Sum(Tail(terms))

\* the sum of the terms, ValueError(name) when the guard finds it zero
nonzero_sum(name, terms) ==
    IF sum_is_zero(Sum(terms), terms) THEN ValueError(name)
    ELSE Value(Sum(terms))

\* cash + marketable_securities + accounts_receivable + inventory
\* + other_current_assets, each term 0 when its getter raises
get_current_assets(self, query_date, quarterly, tolerance) ==
    or_else(
        get_concept(self, "current assets", <<"AssetsCurrent">>, "USD",
                    query_date, quarterly, tolerance),
        nonzero_sum("current assets",
            <<or_zero(get_cash(self, query_date, quarterly, tolerance)),
              or_zero(get_marketable_securities(self, query_date, quarterly,
                                                tolerance)),
              or_zero(get_accounts_receivable(self, query_date, quarterly,
                                              tolerance)),
              or_zero(get_inventory(self, query_date, quarterly, tolerance)),
              or_zero(get_other_current_assets(self, query_date, quarterly,
                                               tolerance))>>))

AccountsPayableTags ==
    <<"AccountsPayableCurrent", "OtherAccountsPayableAndAccruedLiabilities",
      "AccountsPayableTradeCurrent", "AccountsPayableTradeCurrentAndNoncurrent">>

get_accounts_payable(self, query_date, quarterly, tolerance) ==
    get_concept(self, "accounts payable", AccountsPayableTags, "USD", query_date,
                quarterly, tolerance)

TaxesPayableTags ==
    <<"TaxesPayableCurrent", "TaxesPayableCurrentAndNoncurrent",
      "AccruedIncomeTaxesCurrent", "AccruedIncomeTaxes",
      "AccrualForTaxesOtherThanIncomeTaxesCurrent">>

get_taxes_payable(self, query_date, quarterly, tolerance) ==
    get_concept(self, "taxes payable", TaxesPayableTags, "USD", query_date,
                quarterly, tolerance)

AccruedSalariesTags == <<"AccruedSalariesAndWagesCurrent", "AccruedSalariesCurrent">>

get_accrued_salaries(self, query_date, quarterly, tolerance) ==
    get_concept(self, "accrued salaries", AccruedSalariesTags, "USD", query_date,
                quarterly, tolerance)

InterestPayableTags ==
    <<"InterestPayableCurrent", "InterestPayableCurrentAndNoncurrent">>

get_interest_payable(self, query_date, quarterly, tolerance) ==
    get_concept(self, "interest payable", InterestPayableTags, "USD", query_date,
                quarterly, tolerance)

DeferredRevenuesTags ==
    <<"DeferredRevenueCurrent", "ContractWithCustomerLiability",
      "ContractWithCustomerLiabilityCurrent">>

get_deferred_revenues(self, query_date, quarterly, tolerance) ==
    get_concept(self, "deferred revenues", DeferredRevenuesTags, "USD",
                query_date, quarterly, tolerance)

AccruedLiabilitiesTags ==
    <<"AccruedLiabilitiesCurrent", "AccruedInsuranceCurrent",
      "AccruedLiabilitiesCurrentAndNoncurrent">>

get_accrued_liabilities(self, query_date, quarterly, tolerance) ==
    get_concept(self, "accrued liabilities", AccruedLiabilitiesTags, "USD",
                query_date, quarterly, tolerance)

OtherCurrentLiabilitiesTags ==
    <<"OtherLiabilitiesCurrent", "OtherAccruedLiabilitiesCurrent",
      "LiabilitiesOfDisposalGroupIncludingDiscontinuedOperationCurrent",
      "DerivativeLiabilitiesCurrent",
      "LiabilitiesOfDisposalGroupIncludingDiscontinuedOperation">>

get_other_current_liabilities(self, query_date, quarterly, tolerance) ==
    get_concept(self, "other current liabilities", OtherCurrentLiabilitiesTags,
                "USD", query_date, quarterly, tolerance)

\* current_debt + accounts_payable + taxes_payable + accrued_salaries
\* + interest_payable + deferred_revenues + accrued_liabilities
\* + other_liabilities, each term 0 when its getter raises
get_current_liabilities(self, query_date, quarterly, tolerance) ==
    or_else(
        get_concept(self, "current liabilities", <<"LiabilitiesCurrent">>,
                    "USD", query_date, quarterly, tolerance),
        nonzero_sum("current liabilities",
            <<or_zero(get_current_debt(self, query_date, quarterly, tolerance)),
              or_zero(get_accounts_payable(self, query_date, quarterly,
                                           tolerance)),
              or_zero(get_taxes_payable(self, query_date, quarterly, tolerance)),
              or_zero(get_accrued_salaries(self, query_date, quarterly,
                                           tolerance)),
              or_zero(get_interest_payable(self, query_date, quarterly,
                                           tolerance)),
              or_zero(get_deferred_revenues(self, query_date, quarterly,
                                            tolerance)),
              or_zero(get_accrued_liabilities(self, query_date, quarterly,
                                              tolerance)),
              or_zero(get_other_current_liabilities(self, query_date, quarterly,
                                                    tolerance))>>))

-----------------------------------------------------------------------------
(* Income concepts, EBIT and the time-delta concepts *)

\* statements run in order: the first one that raises ends the method with its
\* exception, otherwise the method returns the values combined with the signs
\* (<<1, -1>> is rs[1] - rs[2])
strict(rs, signs) ==
    CHOOSE out \in
        {LET failed == {i \in DOMAIN r : r[i].kind # "ok"}
         IN  IF failed = {}
             THEN Value(Sum([i \in DOMAIN r |-> signs[i] * r[i].val]))
             ELSE r[CHOOSE i \in failed : \A j \in failed : i <= j] :
         r \in {rs}} : TRUE

NetIncomeTags ==
    <<"NetIncomeLoss", "ProfitLoss",
      "NetIncomeLossAvailableToCommonStockholdersBasic",
      "IncomeLossFromContinuingOperations">>

get_net_income(self, query_date, quarterly, tolerance) ==
    get_concept(self, "net income", NetIncomeTags, "USD", query_date, quarterly,
                tolerance)

InterestExpenseTags ==
    <<"InterestExpense", "InterestExpenseDebt", "InterestAndDebtExpense",
      "InterestExpenseBorrowings", "InterestIncomeExpenseNonoperatingNet",
      "InterestCostsIncurred", "InterestIncomeExpenseNet", "InterestPaidNet",
      "InterestPaid">>

abs(x) == IF x < 0 THEN -x ELSE x

\* the value get_concept returned, with the sign it was filed with
signed(found) == found

\* abs(value) of what get_concept returned
absolute(found) ==
    CHOOSE out \in {IF r.kind = "ok" THEN Ok(abs(r.val), r.tag, r.row) ELSE r :
                    r \in {found}} : TRUE

get_interest_expense(self, query_date, quarterly, tolerance) ==
    absolute(get_concept(self, "interest expense", InterestExpenseTags, "USD",
                         query_date, quarterly, tolerance))

TaxExpenseTags ==
    <<"IncomeTaxExpenseBenefit", "IncomeTaxExpenseBenefitContinuingOperations",
      "CurrentIncomeTaxExpenseBenefit">>

\* pretax_income - net_income when no tax tag resolves
get_tax_expense(self, query_date, quarterly, tolerance) ==
    or_else(
        get_concept(self, "tax expense", TaxExpenseTags, "USD", query_date,
                    quarterly, tolerance),
        strict(<<get_concept(self, "pretax income", <<"ProfitLoss">>, "USD",
                             query_date, quarterly, tolerance),
                 get_net_income(self, query_date, quarterly, tolerance)>>,
               <<1, -1>>))

RevenueTags ==
    <<"Revenues", "SalesRevenueNet", "SalesRevenueGoodsNet",
      "SalesRevenueServicesNet", "SalesRevenueNetOfInterestExpense",
      "RevenueFromContractWithCustomerExcludingAssessedTax",
      "RevenueFromContractWithCustomerIncludingAssessedTax",
      "RevenuesNetOfInterestExpense",
      "OperatingLeasesIncomeStatementLeaseRevenue",
      "OperatingLeaseLeaseIncome", "RegulatedAndUnregulatedOperatingRevenue">>

get_revenue(self, query_date, quarterly, tolerance) ==
    get_concept(self, "revenue", RevenueTags, "USD", query_date, quarterly,
                tolerance)

CostOfRevenueTags ==
    <<"CostOfRevenue", "CostOfGoodsAndServicesSold", "CostOfGoodsSold",
      "CostOfServices">>

get_cost_of_revenue(self, query_date, quarterly, tolerance) ==
    get_concept(self, "cost of revenue", CostOfRevenueTags, "USD", query_date,
                quarterly, tolerance)

OperatingExpensesTags == <<"OperatingExpenses", "OperatingCostsAndExpenses">>

get_operating_expenses(self, query_date, quarterly, tolerance) ==
    get_concept(self, "operating expenses", OperatingExpensesTags, "USD",
                query_date, quarterly, tolerance)

\* the second level summed with each failed term replaced by 0
get_ebit_partial_sum(self, query_date, quarterly, tolerance) ==
    or_else(
        get_concept(self, "ebit", <<"OperatingIncomeLoss">>, "USD", query_date,
                    quarterly, tolerance),
        Value(or_zero(get_net_income(self, query_date, quarterly, tolerance))
              + or_zero(get_interest_expense(self, query_date, quarterly,
                                             tolerance))
              + or_zero(get_tax_expense(self, query_date, quarterly,
                                        tolerance))))

\* three levels, each tried when the one before raised: the reported value,
\* net_income + interest_expense + tax_expense, and
\* revenue - cost_of_revenue - operating_expenses
get_ebit(self, query_date, quarterly, tolerance) ==
    or_else(
        get_concept(self, "ebit", <<"OperatingIncomeLoss">>, "USD", query_date,
                    quarterly, tolerance),
        or_else(
            strict(<<get_net_income(self, query_date, quarterly, tolerance),
                     get_interest_expense(self, query_date, quarterly,
                                          tolerance),
                     get_tax_expense(self, query_date, quarterly, tolerance)>>,
                   <<1, 1, 1>>),
            strict(<<get_revenue(self, query_date, quarterly, tolerance),
                     get_cost_of_revenue(self, query_date, quarterly,
                                         tolerance),
                     get_operating_expenses(self, query_date, quarterly,
                                            tolerance)>>,
                   <<1, -1, -1>>)))

get_property_plant_equipment(self, query_date, quarterly, tolerance) ==
    get_concept(self, "property, plant, and equipment",
                <<"PropertyPlantAndEquipmentGross">>, "USD", query_date,
                quarterly, tolerance)

\* the date 52 weeks before
fifty_two_weeks_ago(query_date) ==
    strftime(minus_weeks(strptime(query_date), DefaultTolerance))

\* (strptime(query_date) - relativedelta(years=1)).strftime("%Y-%m-%d")
one_year_ago(query_date) == strftime(minus_one_year(strptime(query_date)))

CapexTags ==
    <<"CapitalExpenditures", "PaymentsToAcquirePropertyPlantAndEquipment",
      "PaymentsToAcquireProductiveAssets">>

\* if query_date is None: query_date = datetime.today().strftime("%Y-%m-%d")
today_if_none(query_date) == IF query_date = None THEN Today ELSE query_date

\* the prior value resolved with the default quarterly and tolerance
get_capex_prior_defaults(self, query_date, quarterly, tolerance) ==
    or_else(
        get_concept(self, "capital expenditures", CapexTags, "USD", query_date,
                    quarterly, tolerance),
        strict(<<get_property_plant_equipment(self, today_if_none(query_date),
                                              quarterly, tolerance),
                 get_property_plant_equipment(
                     self, one_year_ago(today_if_none(query_date)), FALSE,
                     DefaultTolerance),
                 get_depreciation_and_amortization(
                     self, today_if_none(query_date), quarterly, tolerance)>>,
               <<1, -1, 1>>))

\* current_ppe - previous_ppe + d_and_a when no capex tag resolves,
\* previous_ppe at one_year_ago
get_capex(self, query_date, quarterly, tolerance) ==
    or_else(
        get_concept(self, "capital expenditures", CapexTags, "USD", query_date,
                    quarterly, tolerance),
        strict(<<get_property_plant_equipment(self, today_if_none(query_date),
                                              quarterly, tolerance),
                 get_property_plant_equipment(
                     self, one_year_ago(today_if_none(query_date)), quarterly,
                     tolerance),
                 get_depreciation_and_amortization(
                     self, today_if_none(query_date), quarterly, tolerance)>>,
               <<1, -1, 1>>))

\* current_assets - current_liabilities
get_working_capital(self, query_date, quarterly, tolerance) ==
    strict(<<get_current_assets(self, query_date, quarterly, tolerance),
             get_current_liabilities(self, query_date, quarterly, tolerance)>>,
           <<1, -1>>)

\* current_wc - previous_wc, previous_wc at one_year_ago
get_change_in_working_capital(self, query_date, quarterly, tolerance) ==
    strict(<<get_working_capital(self, today_if_none(query_date), quarterly,
                                 tolerance),
             get_working_capital(self, one_year_ago(today_if_none(query_date)),
                                 quarterly, tolerance)>>,
           <<1, -1>>)

-----------------------------------------------------------------------------
(* Shares, equity, per-share values, cash flow and payout concepts.  A      *)
(* quotient a / b of two table values is the pair <<a, b>>: the values are  *)
(* numpy floats, whose division by zero gives inf or nan and raises nothing *)

SharesOutstandingTags ==
    <<"EntityCommonStockSharesOutstanding",
      "WeightedAverageNumberOfSharesOutstandingBasic",
      "CommonStockSharesOutstanding">>

get_shares_outstanding(self, query_date, quarterly, tolerance) ==
    get_concept(self, "shares outstanding", SharesOutstandingTags, "shares",
                query_date, quarterly, tolerance)

get_total_assets(self, query_date, quarterly, tolerance) ==
    get_concept(self, "total assets", <<"Assets">>, "USD", query_date, quarterly,
                tolerance)

get_liabilities_and_equity(self, query_date, quarterly, tolerance) ==
    get_concept(self, "liabilities and equity",
                <<"LiabilitiesAndStockholdersEquity">>, "USD", query_date,
                quarterly, tolerance)

StockholdersEquityTags ==
    <<"StockholdersEquity",
      "StockholdersEquityIncludingPortionAttributableToNoncontrollingInterest">>

get_stockholders_equity(self, query_date, quarterly, tolerance) ==
    get_concept(self, "shareholders equity", StockholdersEquityTags, "USD",
                query_date, quarterly, tolerance)

PreferredStockTags ==
    <<"PreferredStockValue",
      "PreferredStockValueIncludingPortionAttributableToNoncontrollingInterest">>

get_preferred_stock(self, query_date, quarterly, tolerance) ==
    get_concept(self, "preferred stock", PreferredStockTags, "USD", query_date,
                quarterly, tolerance)

get_preferred_dividends(self, query_date, quarterly, tolerance) ==
    get_concept(self, "preferred dividends", <<"DividendsPreferredStock">>,
                "USD", query_date, quarterly, tolerance)

\* try: return Liabilities  except: liabilities_and_equity - equity
get_total_liabilities(self, query_date, quarterly, tolerance) ==
    or_else(
        get_concept(self, "total liabilities", <<"Liabilities">>, "USD",
                    query_date, quarterly, tolerance),
        strict(<<get_liabilities_and_equity(self, query_date, quarterly,
                                            tolerance),
                 get_stockholders_equity(self, query_date, quarterly,
                                         tolerance)>>,
               <<1, -1>>))

\* the term of a sum whose getter sits in no try: its failure is the sum's
unguarded(r) == r

\* the term of a sum whose getter sits in try/except: never a failure
zero_substituted(r) == Value(or_zero(r))

\* equity - preferred_stock, preferred_stock 0 when its getter raises
get_book_value(self, query_date, quarterly, tolerance) ==
    strict(<<get_stockholders_equity(self, query_date, quarterly, tolerance),
             zero_substituted(get_preferred_stock(self, query_date, quarterly,
                                                  tolerance))>>,
           <<1, -1>>)

\* rs[1] / rs[2], after both statements ran in order
per_share(rs) ==
    CHOOSE out \in
        {LET failed == {i \in DOMAIN r : r[i].kind # "ok"}
         IN  IF failed = {} THEN Value(<<r[1].val, r[2].val>>)
             ELSE r[CHOOSE i \in failed : \A j \in failed : i <= j] :
         r \in {rs}} : TRUE

get_book_value_per_share(self, query_date, quarterly, tolerance) ==
    per_share(<<get_book_value(self, query_date, quarterly, tolerance),
                get_shares_outstanding(self, query_date, quarterly, tolerance)>>)

\* (net_income - preferred_dividends) / shares, preferred_dividends 0 when
\* its getter raises
get_earnings_per_share(self, query_date, quarterly, tolerance) ==
    per_share(
        <<strict(<<get_net_income(self, query_date, quarterly, tolerance),
                   zero_substituted(get_preferred_dividends(self, query_date,
                                                            quarterly, tolerance))>>,
                 <<1, -1>>),
          get_shares_outstanding(self, query_date, quarterly, tolerance)>>)

get_sales_per_share(self, query_date, quarterly, tolerance) ==
    per_share(<<get_revenue(self, query_date, quarterly, tolerance),
                get_shares_outstanding(self, query_date, quarterly, tolerance)>>)

\* net_income + d_and_a - change_in_wc
get_operating_cash_flow(self, query_date, quarterly, tolerance) ==
    strict(<<get_net_income(self, query_date, quarterly, tolerance),
             get_depreciation_and_amortization(self, query_date, quarterly,
                                               tolerance),
             get_change_in_working_capital(self, query_date, quarterly,
                                           tolerance)>>,
           <<1, 1, -1>>)

get_ocf_per_share(self, query_date, quarterly, tolerance) ==
    per_share(<<get_operating_cash_flow(self, query_date, quarterly, tolerance),
                get_shares_outstanding(self, query_date, quarterly, tolerance)>>)

CashDividendsTags ==
    <<"DividendsCommonStockCash", "DividendsCash", "PaymentsOfDividends",
      "PaymentsOfDividendsCommonStock">>

get_cash_dividends(self, query_date, quarterly, tolerance) ==
    get_concept(self, "cash dividends", CashDividendsTags, "USD", query_date,
                quarterly, tolerance)

ShareRepurchasesTags ==
    <<"PaymentsForRepurchaseOfCommonStock", "PaymentsForRepurchaseOfEquity",
      "StockRepurchasedDuringPeriodValue",
      "PaymentsForRepurchaseOfRedeemableNoncontrollingInterest">>

get_share_repurchases(self, query_date, quarterly, tolerance) ==
    get_concept(self, "share repurchases", ShareRepurchasesTags, "USD",
                query_date, quarterly, tolerance)

ShareIssuancesTags ==
    <<"ProceedsFromIssuanceOfCommonStock", "ProceedsFromIssuanceOrSaleOfEquity",
      "ProceedsFromIssuanceOfSharesUnderIncentiveAndShareBasedCompensationPlansIncludingStockOptions">>

get_share_issuances(self, query_date, quarterly, tolerance) ==
    get_concept(self, "share issuances", ShareIssuancesTags, "USD", query_date,
                quarterly, tolerance)

get_debt_paydown(self, query_date, quarterly, tolerance) ==
    get_concept(self, "debt paydown", <<"RepaymentsOfLongTermDebt">>, "USD",
                query_date, quarterly, tolerance)

DebtIssuanceTags ==
    <<"ProceedsFromIssuanceOfLongTermDebt",
      "ProceedsFromIssuanceOfSeniorLongTermDebt">>

get_debt_issuance(self, query_date, quarterly, tolerance) ==
    get_concept(self, "debt issuance", DebtIssuanceTags, "USD", query_date,
                quarterly, tolerance)

\* ebit + d_and_a
get_ebitda(self, query_date, quarterly, tolerance) ==
    strict(<<get_ebit(self, query_date, quarterly, tolerance),
             get_depreciation_and_amortization(self, query_date, quarterly,
                                               tolerance)>>,
           <<1, 1>>)

\* ebit - tax_expense + d_and_a - capex - change_in_wc
get_ufcf(self, query_date, quarterly, tolerance) ==
    strict(<<get_ebit(self, query_date, quarterly, tolerance),
             get_tax_expense(self, query_date, quarterly, tolerance),
             get_depreciation_and_amortization(self, query_date, quarterly,
                                               tolerance),
             get_capex(self, query_date, quarterly, tolerance),
             get_change_in_working_capital(self, query_date, quarterly,
                                           tolerance)>>,
           <<1, -1, 1, -1, -1>>)

-----------------------------------------------------------------------------
(* The state machine: a Stock built from a processed table, and a caller    *)
(* that makes one call at a time and takes its outcome.                     *)

MaxEntries == 3

Ticker == "ACME"

\* Stock.__init__
Stock(ticker, csv) ==
    [ticker |-> ticker, financials |-> get_financials(csv), industry |-> "Retail"]

NoCall ==
    [op |-> "", concept |-> "", tags |-> <<>>, units |-> "", query_date |-> None,
     quarterly |-> FALSE, tolerance |-> 0]

NoResult == [kind |-> "none", val |-> 0, tag |-> "", row |-> <<>>, detail |-> ""]

\* no coroutine was started
NoTasks == <<>>

Call(op, concept, tags, units, query_date, quarterly, tolerance) ==
    [op |-> op, concept |-> concept, tags |-> tags, units |-> units,
     query_date |-> query_date, quarterly |-> quarterly, tolerance |-> tolerance]

\* every sequence of at most MaxEntries entries of E
SecData(E) == UNION {[1..n -> E] : n \in 0..MaxEntries}

FiscalPeriods == {"FY", "Q1"}

Tolerances == {0, 1, DefaultTolerance}

\* a caller whose reading consumed the newest row of the table
ReturnConsuming ==
    /\ pc = "done"
    /\ pc' = "idle"
    /\ call' = NoCall
    /\ result' = NoResult
    /\ stock' = [stock EXCEPT
                   !.financials.rows =
                      IF @ = <<>> THEN @ ELSE SubSeq(@, 1, Len(@) - 1)]
    /\ UNCHANGED <<tasks, requests, clock, last_update>>

\* the caller takes the outcome of the call
Return ==
    /\ pc = "done"
    /\ pc' = "idle"
    /\ call' = NoCall
    /\ result' = NoResult
    /\ UNCHANGED <<stock, tasks, requests, clock, last_update>>

-----------------------------------------------------------------------------
(* The price provider and the coroutines Stock.get_price and Stock.get_rsi. *)
(* A coroutine runs until its request is sent (session.get) and is resumed  *)
(* by the response, or by the timeout, of that request.                     *)

\* raise TimeoutError("{ticker}: Timed out while retrieving ..."), or the
\* timeout exception of the request itself; what names its class
TimeoutError(what) ==
    [kind |-> "TimeoutError", val |-> 0, tag |-> "", row |-> <<>>, detail |-> what]

\* date.today().strftime("%Y-%m-%d")
today == Today

\* query_date is None or query_date == today: the request without a date
latest(query_date) == query_date = None \/ query_date = today

\* the request a fetch sends first
first_request(fetch, ticker, query_date) ==
    [fetch |-> fetch, ticker |-> ticker,
     date |-> IF latest(query_date) THEN None ELSE query_date]

\* a fetch that asked again for the same day
same_day(query_date) == query_date

\* (strptime(query_date).date() - timedelta(days=1)).strftime("%Y-%m-%d")
day_before(query_date) == strftime(strptime(query_date) - 1)

\* the while condition negated: response["status"] == "OK", and for the RSI
\* "values" in response["results"]
answered(fetch, response) ==
    response.status = "OK" /\ (fetch = "rsi" => response.values)

MaxBackwardSteps == 2

\* a loop counter kept in one place for all coroutines
shared_counter(ts, t) == Sum([k \in DOMAIN ts |-> ts[k].i])

\* the loop counter of the coroutine, the local variable i
own_counter(ts, t) == ts[t].i

\* a fetch that took a timeout for one more day without a price
fetch_step_retrying(fetch, date, i, response) ==
    IF date = None
    THEN [more |-> FALSE,
          outcome |-> IF answered(fetch, response) THEN Value(response.value)
                      ELSE KeyError(IF response.status = "OK" THEN "values"
                                    ELSE "results")]
    ELSE IF answered(fetch, response)
    THEN [more |-> FALSE, outcome |-> Value(response.value)]
    ELSE IF i >= MaxBackwardSteps
    THEN [more |-> FALSE, outcome |-> ValueError("price")]
    ELSE [more |-> TRUE, outcome |-> NoResult]

\* what the fetch does with the response to the request it awaits: its
\* outcome, or more = TRUE when it steps one day back and asks again
fetch_step(fetch, date, i, response) ==
    IF response.status = "timeout"
    THEN [more |-> FALSE, outcome |-> TimeoutError(response.exception)]
    ELSE IF date = None
    THEN [more |-> FALSE,
          outcome |-> IF answered(fetch, response) THEN Value(response.value)
                      ELSE KeyError(IF response.status = "OK" THEN "values"
                                    ELSE "results")]
    ELSE IF answered(fetch, response)
    THEN [more |-> FALSE, outcome |-> Value(response.value)]
    ELSE IF i >= MaxBackwardSteps
    THEN [more |-> FALSE, outcome |-> ValueError("price")]
    ELSE [more |-> TRUE, outcome |-> NoResult]

-----------------------------------------------------------------------------
(* The ratio coroutines.  Each awaits the price once and then runs to its   *)
(* end without another await; price below is the outcome of that fetch.     *)

\* rs[1] * rs[2], after both statements ran in order
times(rs) ==
    CHOOSE out \in
        {LET failed == {i \in DOMAIN r : r[i].kind # "ok"}
         IN  IF failed = {} THEN Value(r[1].val * r[2].val)
             ELSE r[CHOOSE i \in failed : \A j \in failed : i <= j] :
         r \in {rs}} : TRUE

\* price / bvps
get_pb_ratio(self, price, query_date, quarterly, tolerance) ==
    per_share(<<price,
                get_book_value_per_share(self, query_date, quarterly, tolerance)>>)

\* price over earnings per share before preferred dividends
get_pe_ratio_gross(self, price, query_date, quarterly, tolerance) ==
    per_share(<<price,
                per_share(<<get_net_income(self, query_date, quarterly, tolerance),
                            get_shares_outstanding(self, query_date, quarterly,
                                                   tolerance)>>)>>)

\* price / eps
get_pe_ratio(self, price, query_date, quarterly, tolerance) ==
    per_share(<<price,
                get_earnings_per_share(self, query_date, quarterly, tolerance)>>)

\* price / sps
get_ps_ratio(self, price, query_date, quarterly, tolerance) ==
    per_share(<<price,
                get_sales_per_share(self, query_date, quarterly, tolerance)>>)

\* price / cfps
get_pcf_ratio(self, price, query_date, quarterly, tolerance) ==
    per_share(<<price,
                get_ocf_per_share(self, query_date, quarterly, tolerance)>>)

\* price * shares
get_market_cap(self, price, query_date, quarterly, tolerance) ==
    times(<<price,
            get_shares_outstanding(self, query_date, quarterly, tolerance)>>)

\* an enterprise value that counts a missing debt or cash as 0
get_enterprise_value_substituted(self, price, query_date, quarterly, tolerance) ==
    strict(<<get_market_cap(self, price, query_date, quarterly, tolerance),
             zero_substituted(get_total_debt(self, query_date, quarterly,
                                             tolerance)),
             zero_substituted(get_cash(self, query_date, quarterly, tolerance))>>,
           <<1, 1, -1>>)

\* market_cap + debt - cash
get_enterprise_value(self, price, query_date, quarterly, tolerance) ==
    strict(<<get_market_cap(self, price, query_date, quarterly, tolerance),
             get_total_debt(self, query_date, quarterly, tolerance),
             get_cash(self, query_date, quarterly, tolerance)>>,
           <<1, 1, -1>>)

\* ev / ebitda
get_ev_to_ebitda(self, price, query_date, quarterly, tolerance) ==
    per_share(<<get_enterprise_value(self, price, query_date, quarterly,
                                     tolerance),
                get_ebitda(self, query_date, quarterly, tolerance)>>)

\* the five payout terms, none of them guarded
payout_terms_unguarded(self, query_date, quarterly, tolerance) ==
    <<get_cash_dividends(self, query_date, quarterly, tolerance),
      get_share_repurchases(self, query_date, quarterly, tolerance),
      get_share_issuances(self, query_date, quarterly, tolerance),
      get_debt_paydown(self, query_date, quarterly, tolerance),
      get_debt_issuance(self, query_date, quarterly, tolerance)>>

\* the five payout terms, each in its own try/except with 0 as the default
payout_terms(self, query_date, quarterly, tolerance) ==
    <<zero_substituted(get_cash_dividends(self, query_date, quarterly,
                                          tolerance)),
      zero_substituted(get_share_repurchases(self, query_date, quarterly,
                                             tolerance)),
      zero_substituted(get_share_issuances(self, query_date, quarterly,
                                           tolerance)),
      zero_substituted(get_debt_paydown(self, query_date, quarterly, tolerance)),
      zero_substituted(get_debt_issuance(self, query_date, quarterly,
                                         tolerance))>>

PayoutSigns == <<1, 1, -1, 1, -1>>

\* (cash_dividends + share_repurchases - share_issuances + debt_paydown
\*  - debt_issuance) / market_cap; the market cap is awaited first
get_shareholder_yield(self, price, query_date, quarterly, tolerance) ==
    per_share(<<strict(payout_terms(self, query_date, quarterly, tolerance),
                       PayoutSigns),
                get_market_cap(self, price, query_date, quarterly, tolerance)>>)

\* one getter call of a method body and what it gave
Statement(name, out) == [name |-> name, out |-> out]

\* a batch that resolved the shares again for every per-share ratio
vc2_statements_per_ratio(self, query_date, quarterly, tolerance) ==
    <<Statement("get_shares_outstanding",
                get_shares_outstanding(self, query_date, quarterly, tolerance)),
      Statement("get_book_value",
                get_book_value(self, query_date, quarterly, tolerance)),
      Statement("get_shares_outstanding",
                get_shares_outstanding(self, query_date, quarterly, tolerance)),
      Statement("get_net_income",
                get_net_income(self, query_date, quarterly, tolerance)),
      Statement("get_preferred_dividends",
                zero_substituted(get_preferred_dividends(self, query_date,
                                                         quarterly, tolerance))),
      Statement("get_revenue",
                get_revenue(self, query_date, quarterly, tolerance)),
      Statement("get_operating_cash_flow",
                get_operating_cash_flow(self, query_date, quarterly, tolerance)),
      Statement("get_total_debt",
                get_total_debt(self, query_date, quarterly, tolerance)),
      Statement("get_cash", get_cash(self, query_date, quarterly, tolerance)),
      Statement("get_ebitda",
                get_ebitda(self, query_date, quarterly, tolerance)),
      Statement("get_cash_dividends",
                zero_substituted(get_cash_dividends(self, query_date, quarterly,
                                                    tolerance))),
      Statement("get_share_repurchases",
                zero_substituted(get_share_repurchases(self, query_date,
                                                       quarterly, tolerance))),
      Statement("get_share_issuances",
                zero_substituted(get_share_issuances(self, query_date,
                                                     quarterly, tolerance))),
      Statement("get_debt_paydown",
                zero_substituted(get_debt_paydown(self, query_date, quarterly,
                                                  tolerance))),
      Statement("get_debt_issuance",
                zero_substituted(get_debt_issuance(self, query_date, quarterly,
                                                   tolerance)))>>

\* the getter calls of get_vc2_metrics after the price, in statement order;
\* those inside try/except give their default instead of a failure
vc2_statements(self, query_date, quarterly, tolerance) ==
    <<Statement("get_shares_outstanding",
                get_shares_outstanding(self, query_date, quarterly, tolerance)),
      Statement("get_book_value",
                get_book_value(self, query_date, quarterly, tolerance)),
      Statement("get_net_income",
                get_net_income(self, query_date, quarterly, tolerance)),
      Statement("get_preferred_dividends",
                zero_substituted(get_preferred_dividends(self, query_date,
                                                         quarterly, tolerance))),
      Statement("get_revenue",
                get_revenue(self, query_date, quarterly, tolerance)),
      Statement("get_operating_cash_flow",
                get_operating_cash_flow(self, query_date, quarterly, tolerance)),
      Statement("get_total_debt",
                get_total_debt(self, query_date, quarterly, tolerance)),
      Statement("get_cash", get_cash(self, query_date, quarterly, tolerance)),
      Statement("get_ebitda",
                get_ebitda(self, query_date, quarterly, tolerance)),
      Statement("get_cash_dividends",
                zero_substituted(get_cash_dividends(self, query_date, quarterly,
                                                    tolerance))),
      Statement("get_share_repurchases",
                zero_substituted(get_share_repurchases(self, query_date,
                                                       quarterly, tolerance))),
      Statement("get_share_issuances",
                zero_substituted(get_share_issuances(self, query_date,
                                                     quarterly, tolerance))),
      Statement("get_debt_paydown",
                zero_substituted(get_debt_paydown(self, query_date, quarterly,
                                                  tolerance))),
      Statement("get_debt_issuance",
                zero_substituted(get_debt_issuance(self, query_date, quarterly,
                                                   tolerance)))>>

\* the statements that failed
raised(st) == {i \in DOMAIN st : st[i].out.kind # "ok"}

\* the first statement that failed
first_raised(st) == CHOOSE i \in raised(st) : \A j \in raised(st) : i <= j

\* the getters a method body called: all of them, or those up to the one that
\* raised
called(statements) ==
    CHOOSE names \in
        {IF raised(st) = {} THEN [i \in DOMAIN st |-> st[i].name]
         ELSE [i \in 1..first_raised(st) |-> st[i].name] :
         st \in {statements}} : TRUE

\* the value the local variable assigned from getter name holds
local(st, name) ==
    st[CHOOSE i \in DOMAIN st :
          st[i].name = name /\ \A j \in 1..(i - 1) : st[j].name # name].out.val

\* the dictionary data of get_vc2_metrics once every statement has run
vc2_data(price, st) ==
    [pb_ratio |->
        <<price, <<local(st, "get_book_value"),
                   local(st, "get_shares_outstanding")>>>>,
     pe_ratio |->
        <<price, <<local(st, "get_net_income")
                     - local(st, "get_preferred_dividends"),
                   local(st, "get_shares_outstanding")>>>>,
     ps_ratio |->
        <<price, <<local(st, "get_revenue"),
                   local(st, "get_shares_outstanding")>>>>,
     pcf_ratio |->
        <<price, <<local(st, "get_operating_cash_flow"),
                   local(st, "get_shares_outstanding")>>>>,
     ev_ebitda |->
        <<price * local(st, "get_shares_outstanding")
            + local(st, "get_total_debt") - local(st, "get_cash"),
          local(st, "get_ebitda")>>,
     shareholder_yield |->
        <<local(st, "get_cash_dividends") + local(st, "get_share_repurchases")
            - local(st, "get_share_issuances") + local(st, "get_debt_paydown")
            - local(st, "get_debt_issuance"),
          price * local(st, "get_shares_outstanding")>>]

\* get_vc2_metrics after its price fetch: statements are its getter calls
get_vc2_metrics(price, statements) ==
    CHOOSE out \in
        {IF price.kind # "ok" THEN price
         ELSE IF raised(st) # {} THEN st[first_raised(st)].out
         ELSE Value(vc2_data(price.val, st)) :
         st \in {statements}} : TRUE

-----------------------------------------------------------------------------
(* Coroutines as tasks.  A task is one call of an async method: it sends    *)
(* its first request when it starts, waits, and is resumed by the response  *)
(* or by the timeout of the request it awaits.                              *)

\* str() of a Stock, which defines neither __str__ nor __repr__
ObjectRepr == "<sec.stock.Stock object>"

\* the argument get_price and get_rsi receive as ticker: the caller's first
\* argument, which in self.get_price(query_date) is self
bound_ticker(self, op) ==
    IF op \in {"get_price", "get_rsi"} THEN self.ticker ELSE ObjectRepr

\* the provider value the task asks for
fetch_of(op) == IF op = "get_rsi" THEN "rsi" ELSE "price"

Task(self, op, query_date, quarterly, tolerance) ==
    [op |-> op, query_date |-> query_date, quarterly |-> quarterly,
     tolerance |-> tolerance, pc |-> "awaiting", fetch |-> fetch_of(op),
     ticker |-> bound_ticker(self, op),
     date |-> first_request(fetch_of(op), bound_ticker(self, op),
                            query_date).date,
     i |-> 0, responses |-> <<>>,
     calls |-> <<IF op = "get_rsi" THEN "get_rsi" ELSE "get_price">>,
     result |-> NoResult]

\* a method body that ran to its end: what it gave and the getters it called
Ran(outcome, getters) == [result |-> outcome, calls |-> getters]

\* the body of get_vc2_metrics after its price fetch
run_vc2_metrics(price, statements) ==
    CHOOSE ran \in
        {Ran(get_vc2_metrics(price, st),
             IF price.kind = "ok" THEN called(st) ELSE <<>>) :
         st \in {statements}} : TRUE

\* the rest of the coroutine once its fetch has ended with outcome price
after_price(self, task, price) ==
    CASE task.op \in {"get_price", "get_rsi"} -> Ran(price, <<>>)
      [] task.op = "get_pb_ratio" ->
            Ran(get_pb_ratio(self, price, task.query_date, task.quarterly,
                             task.tolerance), <<>>)
      [] task.op = "get_pe_ratio" ->
            Ran(get_pe_ratio(self, price, task.query_date, task.quarterly,
                             task.tolerance), <<>>)
      [] task.op = "get_ps_ratio" ->
            Ran(get_ps_ratio(self, price, task.query_date, task.quarterly,
                             task.tolerance), <<>>)
      [] task.op = "get_pcf_ratio" ->
            Ran(get_pcf_ratio(self, price, task.query_date, task.quarterly,
                              task.tolerance), <<>>)
      [] task.op = "get_market_cap" ->
            Ran(get_market_cap(self, price, task.query_date, task.quarterly,
                               task.tolerance), <<>>)
      [] task.op = "get_enterprise_value" ->
            Ran(get_enterprise_value(self, price, task.query_date,
                                     task.quarterly, task.tolerance), <<>>)
      [] task.op = "get_ev_to_ebitda" ->
            Ran(get_ev_to_ebitda(self, price, task.query_date, task.quarterly,
                                 task.tolerance), <<>>)
      [] task.op = "get_shareholder_yield" ->
            Ran(get_shareholder_yield(self, price, task.query_date,
                                      task.quarterly, task.tolerance), <<>>)
      [] task.op = "get_vc2_metrics" ->
            run_vc2_metrics(price,
                            vc2_statements(self, task.query_date, task.quarterly,
                                           task.tolerance))

\* the values the provider quotes
Quotes == {3, 7}

\* session.get raises asyncio.TimeoutError, which is the class named in the
\* except clause on some interpreters (the method then raises the builtin
\* TimeoutError) and another class on others (the exception leaves the method
\* as it is)
Timeouts ==
    {[status |-> "timeout", values |-> FALSE, value |-> 0, exception |-> e] :
        e \in {"TimeoutError", "asyncio.TimeoutError"}}

\* what comes of a request: an answer of the provider, or the timeout
Responses(fetch) ==
    {[status |-> "NOT_FOUND", values |-> FALSE, value |-> 0, exception |-> ""]}
    \cup {[status |-> "OK", values |-> TRUE, value |-> v, exception |-> ""] :
            v \in Quotes}
    \cup (IF fetch = "rsi"
          THEN {[status |-> "OK", values |-> FALSE, value |-> 0,
                 exception |-> ""]}
          ELSE {})
    \cup Timeouts

\* a caller starts one more coroutine, which sends its first request
Start(limit, ops, dates, quarterlies, tolerances) ==
    /\ Len(tasks) < limit
    /\ \E op \in ops, query_date \in dates, quarterly \in quarterlies,
          tolerance \in tolerances :
          /\ tasks' = Append(tasks,
                             Task(stock, op, query_date, quarterly, tolerance))
          /\ requests' =
                Append(requests,
                       [task |-> Len(tasks) + 1]
                       @@ first_request(fetch_of(op), bound_ticker(stock, op),
                                        query_date))
    /\ UNCHANGED <<stock, pc, call, result, clock, last_update>>

\* task t is resumed with what came of the request it awaits: it sends the
\* request for the day before, or runs to its end
Resume(t, response) ==
    /\ IF fetch_step(tasks[t].fetch, tasks[t].date, own_counter(tasks, t),
                     response).more
       THEN /\ tasks' = [tasks EXCEPT ![t].date = day_before(@),
                                      ![t].i = @ + 1,
                                      ![t].responses = Append(@, response)]
            /\ requests' =
                  Append(requests,
                         [task |-> t, fetch |-> tasks[t].fetch,
                          ticker |-> tasks[t].ticker,
                          date |-> day_before(tasks[t].date)])
       ELSE /\ \E ran \in
                   {after_price(stock, tasks[t],
                        fetch_step(tasks[t].fetch, tasks[t].date,
                                   own_counter(tasks, t), response).outcome)} :
                   tasks' = [tasks EXCEPT
                               ![t].pc = "done",
                               ![t].responses = Append(@, response),
                               ![t].result = ran.result,
                               ![t].calls = @ \o ran.calls]
            /\ requests' = requests
    /\ UNCHANGED <<stock, pc, call, result, clock, last_update>>

\* the request of a waiting task is answered or runs into its timeout
Respond ==
    \E t \in DOMAIN tasks :
       /\ tasks[t].pc = "awaiting"
       /\ \E response \in Responses(tasks[t].fetch) : Resume(t, response)

-----------------------------------------------------------------------------
(* Spec: get_metric and get_concept on the tables of a company that filed   *)
(* under two cash tags.                                                     *)

MetricItems == <<"Cash", "CashAndCashEquivalentsAtCarryingValue">>

FilingDates == <<<<2022, 2, 1>>, <<2022, 2, 2>>, <<2023, 2, 1>>, <<2023, 2, 2>>>>

QueryDates == {None, <<2023, 2, 1>>, <<2023, 2, 2>>}

MetricEntries ==
    {[item |-> MetricItems[i], unit |-> "USD", filed |-> FilingDates[j],
      val |-> 100 * i + j, fp |-> f] :
        i \in DOMAIN MetricItems, j \in DOMAIN FilingDates, f \in FiscalPeriods}

\* the tags a caller asks for: the two filed ones and one never filed
MetricTags == {MetricItems[1], MetricItems[2], "Assets"}

ConceptTagLists ==
    {<<MetricItems[1], MetricItems[2]>>, <<MetricItems[2], MetricItems[1]>>,
     <<"Assets", MetricItems[1]>>}

Init ==
    /\ \E sec_data \in SecData(MetricEntries) :
          stock = Stock(Ticker, process_sec_json(sec_data))
    /\ pc = "idle"
    /\ call = NoCall
    /\ result = NoResult
    /\ tasks = NoTasks
    /\ requests = <<>>
    /\ clock = 0
    /\ last_update = None

GetMetric ==
    /\ pc = "idle"
    /\ \E metric \in MetricTags, query_date \in QueryDates,
          quarterly \in BOOLEAN, tolerance \in Tolerances :
          /\ call' = Call("get_metric", "", <<metric>>, "USD", query_date,
                          quarterly, tolerance)
          /\ result' = get_metric(stock, metric, "USD", query_date, quarterly,
                                  tolerance)
    /\ pc' = "done"
    /\ UNCHANGED <<stock, tasks, requests, clock, last_update>>

GetConcept ==
    /\ pc = "idle"
    /\ \E tags \in ConceptTagLists, query_date \in QueryDates,
          quarterly \in BOOLEAN, tolerance \in Tolerances :
          /\ call' = Call("get_concept", "cash", tags, "USD", query_date,
                          quarterly, tolerance)
          /\ result' = get_concept(stock, "cash", tags, "USD", query_date,
                                   quarterly, tolerance)
    /\ pc' = "done"
    /\ UNCHANGED <<stock, tasks, requests, clock, last_update>>

GetCash ==
    /\ pc = "idle"
    /\ \E query_date \in QueryDates, quarterly \in BOOLEAN,
          tolerance \in Tolerances :
          /\ call' = Call("get_cash", "", <<>>, "", query_date, quarterly,
                          tolerance)
          /\ result' = get_cash(stock, query_date, quarterly, tolerance)
    /\ pc' = "done"
    /\ UNCHANGED <<stock, tasks, requests, clock, last_update>>

Next == GetMetric \/ GetConcept \/ GetCash \/ Return

Spec == Init /\ [][Next]_vars

-----------------------------------------------------------------------------
(* SpecAggregates: the zero-substitution aggregates on the tables of a      *)
(* company that filed, for each tag of a family, nothing, a value too old   *)
(* for the window, or a recent annual value.                                *)

MaxVal == 1

Vals == (-MaxVal)..MaxVal

RecentDate == <<2023, 1, 1>>

OldDate == <<2020, 6, 30>>

QueryDate == <<2023, 2, 1>>

\* what the company filed under one tag: nothing (filed = None) or one value
Profiles ==
    {[filed |-> None, val |-> 0, fp |-> "FY"],
     [filed |-> OldDate, val |-> 1, fp |-> "Q2"]}
        \cup {[filed |-> RecentDate, val |-> v, fp |-> "FY"] : v \in Vals}

\* the entries of a company whose filing under items[i] is profile[i]
RECURSIVE Facts(_, _)
Facts(items, profile) ==
    IF items = <<>> THEN <<>>
    ELSE (IF Head(profile).filed = None THEN <<>>
          ELSE <<[item |-> Head(items), unit |-> "USD",
                  filed |-> Head(profile).filed, val |-> Head(profile).val,
                  fp |-> Head(profile).fp]>>)
         \o Facts(Tail(items), Tail(profile))

AggregateFamilies ==
    {<<DepreciationAndAmortizationTags[1], DepreciationAndAmortizationTags[2],
       "Depreciation", AmortizationTags[1], AmortizationTags[2]>>,
     <<TotalDebtTags[1], TotalDebtTags[2], CurrentDebtTags[1],
       NoncurrentDebtTags[1]>>,
     <<"AssetsCurrent", CashTags[1], "AccountsReceivableNetCurrent",
       InventoryTags[1], OtherCurrentAssetsTags[1]>>,
     <<"LiabilitiesCurrent", CurrentDebtTags[1], AccountsPayableTags[1],
       TaxesPayableTags[1], OtherCurrentLiabilitiesTags[1]>>}

InitAggregates ==
    /\ \E items \in AggregateFamilies :
          \E profile \in [DOMAIN items -> Profiles] :
             stock = Stock(Ticker, process_sec_json(Facts(items, profile)))
    /\ pc = "idle"
    /\ call = NoCall
    /\ result = NoResult
    /\ tasks = NoTasks
    /\ requests = <<>>
    /\ clock = 0
    /\ last_update = None

GetDepreciationAndAmortization ==
    /\ pc = "idle"
    /\ \E quarterly \in BOOLEAN :
          /\ call' = Call("get_depreciation_and_amortization", "", <<>>, "",
                          QueryDate, quarterly, DefaultTolerance)
          /\ result' = get_depreciation_and_amortization(stock, QueryDate,
                           quarterly, DefaultTolerance)
    /\ pc' = "done"
    /\ UNCHANGED <<stock, tasks, requests, clock, last_update>>

GetTotalDebt ==
    /\ pc = "idle"
    /\ \E quarterly \in BOOLEAN :
          /\ call' = Call("get_total_debt", "", <<>>, "", QueryDate, quarterly,
                          DefaultTolerance)
          /\ result' = get_total_debt(stock, QueryDate, quarterly,
                                      DefaultTolerance)
    /\ pc' = "done"
    /\ UNCHANGED <<stock, tasks, requests, clock, last_update>>

GetCurrentAssets ==
    /\ pc = "idle"
    /\ \E quarterly \in BOOLEAN :
          /\ call' = Call("get_current_assets", "", <<>>, "", QueryDate,
                          quarterly, DefaultTolerance)
          /\ result' = get_current_assets(stock, QueryDate, quarterly,
                                          DefaultTolerance)
    /\ pc' = "done"
    /\ UNCHANGED <<stock, tasks, requests, clock, last_update>>

GetCurrentLiabilities ==
    /\ pc = "idle"
    /\ \E quarterly \in BOOLEAN :
          /\ call' = Call("get_current_liabilities", "", <<>>, "", QueryDate,
                          quarterly, DefaultTolerance)
          /\ result' = get_current_liabilities(stock, QueryDate, quarterly,
                                               DefaultTolerance)
    /\ pc' = "done"
    /\ UNCHANGED <<stock, tasks, requests, clock, last_update>>

NextAggregates ==
    \/ GetDepreciationAndAmortization
    \/ GetTotalDebt
    \/ GetCurrentAssets
    \/ GetCurrentLiabilities
    \/ Return

SpecAggregates == InitAggregates /\ [][NextAggregates]_vars

-----------------------------------------------------------------------------
(* SpecEbit: get_ebit and the income concepts under it, on the tables of a  *)
(* company that filed, for each income tag, nothing, a value too old for    *)
(* the window, or a recent annual value (interest stored with either sign). *)

EbitItems ==
    <<"OperatingIncomeLoss", "NetIncomeLoss", "InterestExpense",
      "IncomeTaxExpenseBenefit", "ProfitLoss", "Revenues", "CostOfRevenue",
      "OperatingExpenses">>

EbitValues == <<60, 50, 10, 5, 58, 200, 120, 30>>

Presence == {"absent", "stale", "recent"}

EbitProfile(presence, sign) ==
    [i \in DOMAIN EbitItems |->
        CASE presence[i] = "absent" -> [filed |-> None, val |-> 0, fp |-> "FY"]
          [] presence[i] = "stale" ->
                [filed |-> OldDate, val |-> EbitValues[i], fp |-> "Q2"]
          [] presence[i] = "recent" ->
                [filed |-> RecentDate,
                 val |-> IF EbitItems[i] = "InterestExpense"
                         THEN sign * EbitValues[i] ELSE EbitValues[i],
                 fp |-> "FY"]]

InitEbit ==
    /\ \E presence \in [DOMAIN EbitItems -> Presence], sign \in {-1, 1} :
          stock = Stock(Ticker,
                    process_sec_json(Facts(EbitItems, EbitProfile(presence, sign))))
    /\ pc = "idle"
    /\ call = NoCall
    /\ result = NoResult
    /\ tasks = NoTasks
    /\ requests = <<>>
    /\ clock = 0
    /\ last_update = None

GetEbit ==
    /\ pc = "idle"
    /\ \E quarterly \in BOOLEAN :
          /\ call' = Call("get_ebit", "", <<>>, "", QueryDate, quarterly,
                          DefaultTolerance)
          /\ result' = get_ebit(stock, QueryDate, quarterly, DefaultTolerance)
    /\ pc' = "done"
    /\ UNCHANGED <<stock, tasks, requests, clock, last_update>>

GetNetIncome ==
    /\ pc = "idle"
    /\ \E quarterly \in BOOLEAN :
          /\ call' = Call("get_net_income", "", <<>>, "", QueryDate, quarterly,
                          DefaultTolerance)
          /\ result' = get_net_income(stock, QueryDate, quarterly,
                                      DefaultTolerance)
    /\ pc' = "done"
    /\ UNCHANGED <<stock, tasks, requests, clock, last_update>>

GetInterestExpense ==
    /\ pc = "idle"
    /\ \E quarterly \in BOOLEAN :
          /\ call' = Call("get_interest_expense", "", <<>>, "", QueryDate,
                          quarterly, DefaultTolerance)
          /\ result' = get_interest_expense(stock, QueryDate, quarterly,
                                            DefaultTolerance)
    /\ pc' = "done"
    /\ UNCHANGED <<stock, tasks, requests, clock, last_update>>

GetTaxExpense ==
    /\ pc = "idle"
    /\ \E quarterly \in BOOLEAN :
          /\ call' = Call("get_tax_expense", "", <<>>, "", QueryDate, quarterly,
                          DefaultTolerance)
          /\ result' = get_tax_expense(stock, QueryDate, quarterly,
                                       DefaultTolerance)
    /\ pc' = "done"
    /\ UNCHANGED <<stock, tasks, requests, clock, last_update>>

NextEbit == GetEbit \/ GetNetIncome \/ GetInterestExpense \/ GetTaxExpense \/ Return

SpecEbit == InitEbit /\ [][NextEbit]_vars

-----------------------------------------------------------------------------
(* SpecDelta: get_change_in_working_capital and get_capex on the tables of  *)
(* a company whose filings, a year and more apart, carry the tags the       *)
(* deltas read.                                                             *)

DeltaDates ==
    <<<<2021, 12, 1>>, <<2022, 1, 10>>, <<2023, 1, 10>>, <<2023, 3, 1>>,
      <<2024, 1, 10>>>>

DeltaPeriods == <<"Q3", "FY", "FY", "Q1", "FY">>

DeltaQueryDates == {None, <<2023, 1, 31>>, <<2024, 2, 29>>}

DeltaTolerances == {4, DefaultTolerance}

\* the entries of one tag filed on the dates of DeltaDates chosen by on
RECURSIVE DatedFacts(_, _, _, _)
DatedFacts(item, base, on, j) ==
    IF j > Len(DeltaDates) THEN <<>>
    ELSE (IF j \in on
          THEN <<[item |-> item, unit |-> "USD", filed |-> DeltaDates[j],
                  val |-> base + j * j, fp |-> DeltaPeriods[j]]>>
          ELSE <<>>)
         \o DatedFacts(item, base, on, j + 1)

FilingSets == SUBSET (DOMAIN DeltaDates)

InitDelta ==
    /\ \/ \E a \in FilingSets, l \in FilingSets :
             stock = Stock(Ticker, process_sec_json(
                        DatedFacts("AssetsCurrent", 500, a, 1)
                        \o DatedFacts("LiabilitiesCurrent", 200, l, 1)))
       \/ \E p \in FilingSets, c \in {{}, {3}}, d \in {{}, {3}, {1, 5}} :
             stock = Stock(Ticker, process_sec_json(
                        DatedFacts("PropertyPlantAndEquipmentGross", 800, p, 1)
                        \o DatedFacts(CapexTags[1], 300, c, 1)
                        \o DatedFacts(DepreciationAndAmortizationTags[1], 100, d, 1)))
    /\ pc = "idle"
    /\ call = NoCall
    /\ result = NoResult
    /\ tasks = NoTasks
    /\ requests = <<>>
    /\ clock = 0
    /\ last_update = None

GetChangeInWorkingCapital ==
    /\ pc = "idle"
    /\ \E query_date \in DeltaQueryDates, quarterly \in BOOLEAN,
          tolerance \in DeltaTolerances :
          /\ call' = Call("get_change_in_working_capital", "", <<>>, "",
                          query_date, quarterly, tolerance)
          /\ result' = get_change_in_working_capital(stock, query_date,
                                                     quarterly, tolerance)
    /\ pc' = "done"
    /\ UNCHANGED <<stock, tasks, requests, clock, last_update>>

GetCapex ==
    /\ pc = "idle"
    /\ \E query_date \in DeltaQueryDates, quarterly \in BOOLEAN,
          tolerance \in DeltaTolerances :
          /\ call' = Call("get_capex", "", <<>>, "", query_date, quarterly,
                          tolerance)
          /\ result' = get_capex(stock, query_date, quarterly, tolerance)
    /\ pc' = "done"
    /\ UNCHANGED <<stock, tasks, requests, clock, last_update>>

NextDelta == GetChangeInWorkingCapital \/ GetCapex \/ Return

SpecDelta == InitDelta /\ [][NextDelta]_vars

-----------------------------------------------------------------------------
(* SpecInvalid: get_metric and get_concept called with arguments that are   *)
(* not valid: a query date that is no date of the calendar, or a negative   *)
(* tolerance.                                                               *)

MalformedDates == {<<2023, 13, 1>>, <<2023, 2, 30>>}

NegativeTolerance == -1

\* (query_date, tolerance) pairs with one of the two invalid
InvalidArguments ==
    (MalformedDates \X {DefaultTolerance})
        \cup ({<<2023, 2, 1>>, <<2023, 2, 2>>} \X {NegativeTolerance})

GetMetricInvalid ==
    /\ pc = "idle"
    /\ \E metric \in MetricTags, a \in InvalidArguments, quarterly \in BOOLEAN :
          /\ call' = Call("get_metric", "", <<metric>>, "USD", a[1], quarterly,
                          a[2])
          /\ result' = get_metric(stock, metric, "USD", a[1], quarterly, a[2])
    /\ pc' = "done"
    /\ UNCHANGED <<stock, tasks, requests, clock, last_update>>

GetConceptInvalid ==
    /\ pc = "idle"
    /\ \E tags \in ConceptTagLists, a \in InvalidArguments,
          quarterly \in BOOLEAN :
          /\ call' = Call("get_concept", "cash", tags, "USD", a[1], quarterly,
                          a[2])
          /\ result' = get_concept(stock, "cash", tags, "USD", a[1], quarterly,
                                   a[2])
    /\ pc' = "done"
    /\ UNCHANGED <<stock, tasks, requests, clock, last_update>>

NextInvalid == GetMetricInvalid \/ GetConceptInvalid \/ Return

SpecInvalid == Init /\ [][NextInvalid]_vars

-----------------------------------------------------------------------------
(* What the claims speak of, stated on the table itself: dates are compared *)
(* as days (ordinals), not as strings.                                      *)

Rows == stock.financials.rows

Done(op) == pc = "done" /\ call.op = op

\* the date a call resolves at
AtDate == IF call.query_date = None THEN Today ELSE call.query_date

ColumnOf(tag, units) == tag \o "_" \o units

HasSeries(tag, units) == ColumnOf(tag, units) \in stock.financials.columns

\* D - 7*T days <= d <= D
InWindow(d, D, T) ==
    /\ strptime(D) - 7 * T <= strptime(d)
    /\ strptime(d) <= strptime(D)

\* the rows that carry a value of the tag
Points(tag, units) ==
    {i \in DOMAIN Rows : ColumnOf(tag, units) \in DOMAIN Rows[i].cells}

\* the rows that carry a value of the tag inside the window of the call
PointsInWindow(tag, units) ==
    {i \in Points(tag, units) :
        InWindow(Rows[i].filing_date, AtDate, call.tolerance)}

\* the eligible points of the call: in the window, annual unless quarterly
Eligible(tag, units) ==
    {i \in PointsInWindow(tag, units) : call.quarterly \/ Rows[i].annual}

\* the result is the value the tag has in the row dated result.row
ReadFrom(tag, units, S) ==
    \E i \in S : /\ Rows[i].filing_date = result.row
                 /\ Rows[i].cells[ColumnOf(tag, units)] = result.val

\* C1: get_metric never returns a value from a row filed after the query date D
\* or more than 7*T days before it (T = 0: only a row filed on D), and when the
\* tag's series has no value inside that window it fails with the not-found error.
C1_WindowRespected ==
    Done("get_metric") =>
        LET tag == call.tags[1]
        IN  /\ result.kind = "ok" =>
                 /\ InWindow(result.row, AtDate, call.tolerance)
                 /\ ReadFrom(tag, call.units, Points(tag, call.units))
            /\ (HasSeries(tag, call.units) /\ PointsInWindow(tag, call.units) = {})
                 => result.kind = "ValueError"

\* C1 witness: a value read from the row filed exactly 7*T days before D, T > 0,
\* while the tag also has a value filed after D
C1_Witness ==
    /\ Done("get_metric")
    /\ result.kind = "ok"
    /\ call.tolerance > 0
    /\ strptime(result.row) = strptime(AtDate) - 7 * call.tolerance
    /\ \E i \in Points(call.tags[1], call.units) :
          strptime(Rows[i].filing_date) > strptime(AtDate)

\* C2: when get_metric succeeds, the value is the one at the latest filing date
\* among the eligible points (a value, inside the window, annual unless
\* quarterly), on every table process_sec_json produces.
C2_MostRecentEligible ==
    (Done("get_metric") /\ result.kind = "ok") =>
        LET E == Eligible(call.tags[1], call.units)
        IN  /\ ReadFrom(call.tags[1], call.units, E)
            /\ \A i \in E : strptime(Rows[i].filing_date) <= strptime(result.row)

\* C2 witness: a success with two eligible points, filed out of date order
C2_Witness ==
    /\ Done("get_metric")
    /\ result.kind = "ok"
    /\ Cardinality(Eligible(call.tags[1], call.units)) >= 2

\* C3: with quarterly = false get_metric never returns a value from a row
\* whose annual flag is not true; with quarterly = true annual and non-annual
\* rows are both eligible and the most recent of them is returned.
C3_AnnualOnly ==
    Done("get_metric") =>
        LET tag == call.tags[1]
            P == PointsInWindow(tag, call.units)
        IN  /\ (~call.quarterly /\ result.kind = "ok") =>
                 /\ \E i \in DOMAIN Rows : Rows[i].filing_date = result.row
                 /\ \A i \in DOMAIN Rows :
                       Rows[i].filing_date = result.row => Rows[i].annual = TRUE
            /\ (call.quarterly /\ P # {}) =>
                 /\ result.kind = "ok"
                 /\ ReadFrom(tag, call.units, P)
                 /\ \A i \in P :
                       strptime(Rows[i].filing_date) <= strptime(result.row)

\* C3 witness: an annual value returned although a more recent non-annual row
\* inside the window carries a value of the tag
C3_Witness ==
    /\ Done("get_metric")
    /\ ~call.quarterly
    /\ result.kind = "ok"
    /\ \E i \in PointsInWindow(call.tags[1], call.units) :
          /\ ~Rows[i].annual
          /\ strptime(Rows[i].filing_date) > strptime(result.row)

\* C4: when the table has no series for the requested (tag, unit), get_metric
\* reports the not-found error, the kind it reports for a series without an
\* eligible point.
C4_AbsentSeriesNotFound ==
    (Done("get_metric") /\ ~HasSeries(call.tags[1], call.units))
        => result.kind = "ValueError"

\* the candidate tags of the call that have an eligible point, by position
Resolving(tags, units) == {k \in DOMAIN tags : Eligible(tags[k], units) # {}}

First(S) == CHOOSE k \in S : \A j \in S : k <= j

\* C5: get_concept returns the value resolved from the first candidate tag, in
\* listed order, that has an eligible point, whatever the earlier tags lack
\* (a series, or an eligible point) and however recent a later tag's filing.
C5_FirstTagInOrder ==
    (Done("get_concept") /\ Resolving(call.tags, call.units) # {}) =>
        LET tag == call.tags[First(Resolving(call.tags, call.units))]
        IN  /\ result.kind = "ok"
            /\ result.tag = tag
            /\ ReadFrom(tag, call.units, Eligible(tag, call.units))
            /\ \A i \in Eligible(tag, call.units) :
                  strptime(Rows[i].filing_date) <= strptime(result.row)

\* C6: when no candidate tag resolves, get_concept and the primitive getter
\* fail with the not-found error, and its detail names the concept label.
C6_AllFailNamesConcept ==
    LET tags == IF call.op = "get_cash" THEN CashTags ELSE call.tags
        units == IF call.op = "get_cash" THEN "USD" ELSE call.units
    IN  ((Done("get_concept") \/ Done("get_cash")) /\ Resolving(tags, units) = {})
            => (result.kind = "ValueError" /\ result.detail = "cash")

AggregateOps ==
    {"get_depreciation_and_amortization", "get_total_debt",
     "get_current_assets", "get_current_liabilities"}

\* the tags an aggregate tries before its sub-terms
DirectTags(op) ==
    CASE op = "get_depreciation_and_amortization" -> DepreciationAndAmortizationTags
      [] op = "get_total_debt" -> TotalDebtTags
      [] op = "get_current_assets" -> <<"AssetsCurrent">>
      [] op = "get_current_liabilities" -> <<"LiabilitiesCurrent">>

\* what each sub-term of the aggregate contributes at the call's arguments:
\* its value when it resolves, 0 when it fails
Contribution(r) == IF r.kind = "ok" THEN r.val ELSE 0

SubTerms(op) ==
    LET d == call.query_date
        q == call.quarterly
        t == call.tolerance
    IN  CASE op = "get_depreciation_and_amortization" ->
                <<Contribution(get_depreciation(stock, d, q, t)),
                  Contribution(get_amortization(stock, d, q, t))>>
          [] op = "get_total_debt" ->
                <<Contribution(get_current_debt(stock, d, q, t)),
                  Contribution(get_noncurrent_debt(stock, d, q, t))>>
          [] op = "get_current_assets" ->
                <<Contribution(get_cash(stock, d, q, t)),
                  Contribution(get_marketable_securities(stock, d, q, t)),
                  Contribution(get_accounts_receivable(stock, d, q, t)),
                  Contribution(get_inventory(stock, d, q, t)),
                  Contribution(get_other_current_assets(stock, d, q, t))>>
          [] op = "get_current_liabilities" ->
                <<Contribution(get_current_debt(stock, d, q, t)),
                  Contribution(get_accounts_payable(stock, d, q, t)),
                  Contribution(get_taxes_payable(stock, d, q, t)),
                  Contribution(get_accrued_salaries(stock, d, q, t)),
                  Contribution(get_interest_payable(stock, d, q, t)),
                  Contribution(get_deferred_revenues(stock, d, q, t)),
                  Contribution(get_accrued_liabilities(stock, d, q, t)),
                  Contribution(get_other_current_liabilities(stock, d, q, t))>>

AllZero(terms) == \A i \in DOMAIN terms : terms[i] = 0

\* C7: a zero-substitution aggregate returns the value of its direct tag when
\* one of its direct tags resolves, and otherwise the sum of its sub-terms,
\* a sub-term that fails to resolve counting 0.
C7_DirectElseSum ==
    \A op \in AggregateOps :
        Done(op) =>
            IF Resolving(DirectTags(op), "USD") # {}
            THEN LET tag == DirectTags(op)[First(Resolving(DirectTags(op), "USD"))]
                 IN  /\ result.kind = "ok"
                     /\ ReadFrom(tag, "USD", Eligible(tag, "USD"))
            ELSE result.kind = "ok" => result.val = Sum(SubTerms(op))

\* C8 as claimed: when no direct tag resolves, the aggregate reports the
\* not-found error exactly when all of its sub-terms are missing or zero.
C8_FailsIffAllMissingOrZero ==
    \A op \in AggregateOps :
        (Done(op) /\ Resolving(DirectTags(op), "USD") = {}) =>
            /\ result.kind \in {"ok", "ValueError"}
            /\ result.kind = "ValueError" <=> AllZero(SubTerms(op))

\* C8 amended: when no direct tag resolves, depreciation_and_amortization and
\* total_debt report the not-found error exactly when both sub-terms are
\* missing or zero; current_assets and current_liabilities report it exactly
\* when the sum of their sub-terms (a missing one counting 0) is zero.
C8_FailsIffBothZeroOrSumZero ==
    \A op \in AggregateOps :
        (Done(op) /\ Resolving(DirectTags(op), "USD") = {}) =>
            /\ result.kind \in {"ok", "ValueError"}
            /\ result.kind = "ValueError" <=>
                 IF op \in {"get_current_assets", "get_current_liabilities"}
                 THEN Sum(SubTerms(op)) = 0
                 ELSE AllZero(SubTerms(op))

\* C8 witness: current assets or liabilities fail although sub-terms resolve
\* to non-zero values, which cancel
C8_Witness ==
    \E op \in {"get_current_assets", "get_current_liabilities"} :
        /\ Done(op)
        /\ Resolving(DirectTags(op), "USD") = {}
        /\ result.kind = "ValueError"
        /\ ~AllZero(SubTerms(op))

AllOk(rs) == \A i \in DOMAIN rs : rs[i].kind = "ok"

\* C9: get_ebit returns the OperatingIncomeLoss value when that tag resolves;
\* otherwise net_income + interest_expense + tax_expense when all three
\* resolve; otherwise (no partial sum) revenue - cost_of_revenue -
\* operating_expenses; it fails only when that third level fails too.
C9_EbitThreeLevels ==
    Done("get_ebit") =>
        LET d == call.query_date
            q == call.quarterly
            t == call.tolerance
            second == <<get_net_income(stock, d, q, t),
                        get_interest_expense(stock, d, q, t),
                        get_tax_expense(stock, d, q, t)>>
            third == <<get_revenue(stock, d, q, t),
                       get_cost_of_revenue(stock, d, q, t),
                       get_operating_expenses(stock, d, q, t)>>
        IN  IF Eligible("OperatingIncomeLoss", "USD") # {}
            THEN /\ result.kind = "ok"
                 /\ ReadFrom("OperatingIncomeLoss", "USD",
                             Eligible("OperatingIncomeLoss", "USD"))
            ELSE IF AllOk(second)
            THEN /\ result.kind = "ok"
                 /\ result.val = second[1].val + second[2].val + second[3].val
            ELSE IF AllOk(third)
            THEN /\ result.kind = "ok"
                 /\ result.val = third[1].val - third[2].val - third[3].val
            ELSE result.kind # "ok"

\* C9 witness: OperatingIncomeLoss does not resolve, some but not all of the
\* three second-level terms resolve, and the third level gives the result
C9_Witness ==
    /\ Done("get_ebit")
    /\ Eligible("OperatingIncomeLoss", "USD") = {}
    /\ get_net_income(stock, call.query_date, call.quarterly,
                      call.tolerance).kind = "ok"
    /\ get_interest_expense(stock, call.query_date, call.quarterly,
                            call.tolerance).kind = "ok"
    /\ get_tax_expense(stock, call.query_date, call.quarterly,
                       call.tolerance).kind # "ok"
    /\ result.kind = "ok"

\* the query date minus one calendar year, on the date string itself
OneYearBefore(D) ==
    <<D[1] - 1, D[2],
      IF D[3] > DaysInMonth(D[1] - 1, D[2]) THEN DaysInMonth(D[1] - 1, D[2])
      ELSE D[3]>>

\* C10: get_change_in_working_capital and the fallback of get_capex resolve
\* the prior value at the query date minus one calendar year with the call's
\* own quarterly and tolerance, return current minus prior (plus D&A at the
\* current date for capex), and fail when the current or the prior value fails.
C10_DeltaSameArguments ==
    LET q == call.quarterly
        t == call.tolerance
        prior == OneYearBefore(AtDate)
    IN  /\ Done("get_change_in_working_capital") =>
             LET cur == get_working_capital(stock, AtDate, q, t)
                 prev == get_working_capital(stock, prior, q, t)
             IN  IF AllOk(<<cur, prev>>)
                 THEN result.kind = "ok" /\ result.val = cur.val - prev.val
                 ELSE result.kind # "ok"
        /\ (Done("get_capex")
              /\ get_concept(stock, "capital expenditures", CapexTags, "USD",
                             AtDate, q, t).kind # "ok") =>
             LET cur == get_property_plant_equipment(stock, AtDate, q, t)
                 prev == get_property_plant_equipment(stock, prior, q, t)
                 d_and_a == get_depreciation_and_amortization(stock, AtDate, q, t)
             IN  IF AllOk(<<cur, prev>>)
                 THEN IF d_and_a.kind = "ok"
                      THEN /\ result.kind = "ok"
                           /\ result.val = cur.val - prev.val + d_and_a.val
                      ELSE result.kind # "ok"
                 ELSE result.kind # "ok"

\* C10 witness: the direct capex tags do not resolve and the fallback succeeds
\* on a quarterly call with a tolerance other than the default
C10_Witness ==
    /\ Done("get_capex")
    /\ result.kind = "ok"
    /\ result.tag = ""
    /\ call.quarterly
    /\ call.tolerance # DefaultTolerance

\* the outcomes of the sub-terms of an aggregate at the call's arguments, in
\* the order the aggregate asks for them
SubOutcomes(op) ==
    LET d == call.query_date
        q == call.quarterly
        t == call.tolerance
    IN  CASE op = "get_depreciation_and_amortization" ->
                <<get_depreciation(stock, d, q, t), get_amortization(stock, d, q, t)>>
          [] op = "get_total_debt" ->
                <<get_current_debt(stock, d, q, t),
                  get_noncurrent_debt(stock, d, q, t)>>
          [] op = "get_current_assets" ->
                <<get_cash(stock, d, q, t),
                  get_marketable_securities(stock, d, q, t),
                  get_accounts_receivable(stock, d, q, t),
                  get_inventory(stock, d, q, t),
                  get_other_current_assets(stock, d, q, t)>>
          [] op = "get_current_liabilities" ->
                <<get_current_debt(stock, d, q, t),
                  get_accounts_payable(stock, d, q, t),
                  get_taxes_payable(stock, d, q, t),
                  get_accrued_salaries(stock, d, q, t),
                  get_interest_payable(stock, d, q, t),
                  get_deferred_revenues(stock, d, q, t),
                  get_accrued_liabilities(stock, d, q, t),
                  get_other_current_liabilities(stock, d, q, t)>>

\* C11: a fallback or zero-substitution concept substitutes only for a
\* sub-term that fails with the not-found error; when the first step that
\* does not fail with not-found fails with another error kind (here the
\* missing-series error), that error is the outcome of the call: it is not
\* turned into a zero or a fallback value.
C11_OnlyNotFoundSwallowed ==
    \A op \in AggregateOps :
        Done(op) =>
            LET steps == <<get_concept(stock, "", DirectTags(op), "USD",
                                       call.query_date, call.quarterly,
                                       call.tolerance)>> \o SubOutcomes(op)
            IN  \A i \in DOMAIN steps :
                    (/\ steps[i].kind = "KeyError"
                     /\ \A j \in 1..(i - 1) : steps[j].kind = "ValueError")
                        => result.kind = "KeyError"

\* C12: a call with a negative tolerance or a malformed query date is
\* rejected with an invalid-input error of its own kind: it is not reported
\* as not-found (ValueError), and no series is looked up.
C12_InvalidInputRejected ==
    (/\ pc = "done"
     /\ call.op \in {"get_metric", "get_concept"}
     /\ (call.tolerance < 0 \/ ~IsDate(AtDate)))
        => result.kind = "InvalidInput"

-----------------------------------------------------------------------------
(* SpecRatios: one ratio coroutine at a time on the tables of a company     *)
(* that filed every item the ratios and the strict concepts read, except    *)
(* for at most MaxGaps items, or for some of the payout items, that it      *)
(* never filed or filed long ago.                                           *)

RatioItems ==
    <<"EntityCommonStockSharesOutstanding", "StockholdersEquity",
      "PreferredStockValue", "NetIncomeLoss", "DividendsPreferredStock",
      "Revenues", "OperatingIncomeLoss", "DepreciationAndAmortization",
      "AssetsCurrent", "LiabilitiesCurrent", "LongTermDebt", "Cash",
      "DividendsCash", "PaymentsForRepurchaseOfCommonStock",
      "ProceedsFromIssuanceOfCommonStock", "RepaymentsOfLongTermDebt",
      "ProceedsFromIssuanceOfLongTermDebt", "IncomeTaxExpenseBenefit",
      "CapitalExpenditures">>

RatioValues ==
    <<10, 400, 40, 50, 5, 200, 60, 20, 300, 150, 100, 30, 8, 6, 3, 7, 4, 11,
      25>>

\* the filing a year before the recent one
PriorDate == <<2022, 1, 1>>

\* the growth of a balance item over the year
YearDelta == 9

UnitOf(item) ==
    IF item = "EntityCommonStockSharesOutstanding" THEN "shares" ELSE "USD"

\* the entries of the company: item i filed on RecentDate (and a year before)
\* when presence[i] is "recent", long ago when "stale", never when "absent"
RECURSIVE RatioFacts(_, _)
RatioFacts(presence, i) ==
    IF i > Len(RatioItems) THEN <<>>
    ELSE (CASE presence[i] = "absent" -> <<>>
            [] presence[i] = "stale" ->
                  <<[item |-> RatioItems[i], unit |-> UnitOf(RatioItems[i]),
                     filed |-> OldDate, val |-> RatioValues[i], fp |-> "Q2"]>>
            [] presence[i] = "recent" ->
                  <<[item |-> RatioItems[i], unit |-> UnitOf(RatioItems[i]),
                     filed |-> PriorDate, val |-> RatioValues[i] - YearDelta * i,
                     fp |-> "FY"],
                    [item |-> RatioItems[i], unit |-> UnitOf(RatioItems[i]),
                     filed |-> RecentDate, val |-> RatioValues[i],
                     fp |-> "FY"]>>)
         \o RatioFacts(presence, i + 1)

MaxGaps == 1

\* the items a company with gaps in G filed: kind[i] says how item i is missing
WithGaps(G, kind) ==
    [i \in DOMAIN RatioItems |-> IF i \in G THEN kind[i] ELSE "recent"]

\* the items get_shareholder_yield adds up
PayoutItems ==
    {i \in DOMAIN RatioItems :
        \E tags \in {CashDividendsTags, ShareRepurchasesTags, ShareIssuancesTags,
                      <<"RepaymentsOfLongTermDebt">>, DebtIssuanceTags} :
           \E j \in DOMAIN tags : tags[j] = RatioItems[i]}

\* at most MaxGaps items missing, or any of the payout items missing
GapSets ==
    {g \in SUBSET (DOMAIN RatioItems) : Cardinality(g) <= MaxGaps}
    \cup SUBSET PayoutItems

RatioStores ==
    UNION {{Stock(Ticker, process_sec_json(RatioFacts(WithGaps(G, kind), 1))) :
              kind \in [G -> Presence \ {"recent"}]} : G \in GapSets}

RatioOps ==
    {"get_pb_ratio", "get_pe_ratio", "get_ps_ratio", "get_pcf_ratio",
     "get_market_cap", "get_enterprise_value", "get_ev_to_ebitda",
     "get_shareholder_yield", "get_vc2_metrics"}

InitRatios ==
    /\ stock \in RatioStores
    /\ pc = "idle"
    /\ call = NoCall
    /\ result = NoResult
    /\ tasks = NoTasks
    /\ requests = <<>>
    /\ clock = 0
    /\ last_update = None

StartRatio == Start(1, RatioOps, {None, QueryDate}, {FALSE}, {DefaultTolerance})

NextRatios == StartRatio \/ Respond

SpecRatios == InitRatios /\ [][NextRatios]_vars

-----------------------------------------------------------------------------
(* SpecStrict: the per-share values and the sums and differences that have  *)
(* no fallback, on the tables of SpecRatios.                                *)

\* the caller makes the call op(query_date, quarterly, tolerance), which
\* ends with outcome
Invoke(op, query_date, quarterly, tolerance, outcome) ==
    /\ pc = "idle"
    /\ call' = Call(op, "", <<>>, "", query_date, quarterly, tolerance)
    /\ result' = outcome
    /\ pc' = "done"
    /\ UNCHANGED <<stock, tasks, requests, clock, last_update>>

StrictDates == {None, QueryDate}

GetBookValuePerShare ==
    \E query_date \in StrictDates, quarterly \in BOOLEAN :
       Invoke("get_book_value_per_share", query_date, quarterly,
              DefaultTolerance,
              get_book_value_per_share(stock, query_date, quarterly,
                                       DefaultTolerance))

GetEarningsPerShare ==
    \E query_date \in StrictDates, quarterly \in BOOLEAN :
       Invoke("get_earnings_per_share", query_date, quarterly,
              DefaultTolerance,
              get_earnings_per_share(stock, query_date, quarterly,
                                     DefaultTolerance))

GetSalesPerShare ==
    \E query_date \in StrictDates, quarterly \in BOOLEAN :
       Invoke("get_sales_per_share", query_date, quarterly, DefaultTolerance,
              get_sales_per_share(stock, query_date, quarterly,
                                  DefaultTolerance))

GetWorkingCapital ==
    \E query_date \in StrictDates, quarterly \in BOOLEAN :
       Invoke("get_working_capital", query_date, quarterly, DefaultTolerance,
              get_working_capital(stock, query_date, quarterly,
                                  DefaultTolerance))

GetOperatingCashFlow ==
    \E query_date \in StrictDates, quarterly \in BOOLEAN :
       Invoke("get_operating_cash_flow", query_date, quarterly,
              DefaultTolerance,
              get_operating_cash_flow(stock, query_date, quarterly,
                                      DefaultTolerance))

GetOcfPerShare ==
    \E query_date \in StrictDates, quarterly \in BOOLEAN :
       Invoke("get_ocf_per_share", query_date, quarterly, DefaultTolerance,
              get_ocf_per_share(stock, query_date, quarterly, DefaultTolerance))

GetEbitda ==
    \E query_date \in StrictDates, quarterly \in BOOLEAN :
       Invoke("get_ebitda", query_date, quarterly, DefaultTolerance,
              get_ebitda(stock, query_date, quarterly, DefaultTolerance))

GetUfcf ==
    \E query_date \in StrictDates, quarterly \in BOOLEAN :
       Invoke("get_ufcf", query_date, quarterly, DefaultTolerance,
              get_ufcf(stock, query_date, quarterly, DefaultTolerance))

NextStrict ==
    \/ GetBookValuePerShare
    \/ GetEarningsPerShare
    \/ GetSalesPerShare
    \/ GetWorkingCapital
    \/ GetOperatingCashFlow
    \/ GetOcfPerShare
    \/ GetEbitda
    \/ GetUfcf
    \/ Return

SpecStrict == InitRatios /\ [][NextStrict]_vars

-----------------------------------------------------------------------------
(* SpecFetch: one call of get_price or get_rsi for the latest value, for    *)
(* today, or for a past day (one of them a New Year's Day, one the day      *)
(* after a leap day).                                                       *)

FetchDates == {None, Today, <<2023, 1, 1>>, <<2020, 3, 1>>, <<2023, 2, 1>>}

InitFetch ==
    /\ stock = Stock(Ticker, process_sec_json(RatioFacts(WithGaps({}, <<>>), 1)))
    /\ pc = "idle"
    /\ call = NoCall
    /\ result = NoResult
    /\ tasks = NoTasks
    /\ requests = <<>>
    /\ clock = 0
    /\ last_update = None

StartFetch ==
    Start(1, {"get_price", "get_rsi"}, FetchDates, {FALSE}, {DefaultTolerance})

NextFetch == StartFetch \/ Respond

SpecFetch == InitFetch /\ [][NextFetch]_vars

\* every request is answered or times out (timeout=20)
SpecFetchFair == SpecFetch /\ WF_vars(Respond)

-----------------------------------------------------------------------------
(* SpecConcurrent: two ratio coroutines on one Stock, gathered on one event *)
(* loop: each runs from one await to the next, and the responses arrive in  *)
(* any order.                                                               *)

MaxTasks == 2

ConcurrentOps == {"get_pb_ratio", "get_vc2_metrics"}

\* a company that filed everything, and one that never filed its shares
InitConcurrent ==
    /\ \E G \in {{}, {1}} :
          stock = Stock(Ticker,
                    process_sec_json(
                        RatioFacts(WithGaps(G, [i \in G |-> "absent"]), 1)))
    /\ pc = "idle"
    /\ call = NoCall
    /\ result = NoResult
    /\ tasks = NoTasks
    /\ requests = <<>>
    /\ clock = 0
    /\ last_update = None

StartConcurrent ==
    Start(MaxTasks, ConcurrentOps, {None, QueryDate}, {FALSE},
          {DefaultTolerance})

NextConcurrent == StartConcurrent \/ Respond

SpecConcurrent == InitConcurrent /\ [][NextConcurrent]_vars

-----------------------------------------------------------------------------
(* Claims about the ratio coroutines *)

\* task t ran to its end
Finished(t) == t \in DOMAIN tasks /\ tasks[t].pc = "done"

\* the last response task t was resumed with
LastResponse(t) == tasks[t].responses[Len(tasks[t].responses)]

\* the fetch of task t ended with a value
Fetched(t) == Finished(t) /\ answered(tasks[t].fetch, LastResponse(t))

\* the getters whose values a ratio of the batch is computed from
RatioTerms ==
    [pb_ratio |-> {"get_shares_outstanding", "get_book_value"},
     pe_ratio |-> {"get_shares_outstanding", "get_net_income"},
     ps_ratio |-> {"get_shares_outstanding", "get_revenue"},
     pcf_ratio |-> {"get_shares_outstanding", "get_operating_cash_flow"},
     ev_ebitda |-> {"get_shares_outstanding", "get_total_debt", "get_cash",
                    "get_ebitda"},
     shareholder_yield |-> {"get_shares_outstanding"}]

\* the statements of the batch task t runs, against the store
StatementsOf(t) ==
    vc2_statements(stock, tasks[t].query_date, tasks[t].quarterly,
                   tasks[t].tolerance)

\* every getter the ratio is computed from resolves
Resolves(st, ratio) ==
    \A i \in DOMAIN st : st[i].name \in RatioTerms[ratio] => st[i].out.kind = "ok"

\* C13: a batch whose price was fetched returns a map that holds every ratio
\* whose own sub-terms resolve, whatever happens to the sub-terms of the
\* other ratios
C13_BatchIsolatesFailures ==
    \A t \in DOMAIN tasks :
       (Fetched(t) /\ tasks[t].op = "get_vc2_metrics") =>
          \A st \in {StatementsOf(t)} :
             \A ratio \in DOMAIN RatioTerms :
                Resolves(st, ratio) =>
                   /\ tasks[t].result.kind = "ok"
                   /\ ratio \in DOMAIN tasks[t].result.val

\* how often the task called the getter
Times(t, name) ==
    Cardinality({i \in DOMAIN tasks[t].calls : tasks[t].calls[i] = name})

\* the requests task t sent, in order
RequestsOf(t) == SelectSeq(requests, LAMBDA r : r.task = t)

\* the shares the batch of task t is computed from
SharesOf(t) ==
    get_shares_outstanding(stock, tasks[t].query_date, tasks[t].quarterly,
                           tasks[t].tolerance).val

\* C14: a batch fetches the price once (one fetch: every request but the
\* last got an answer that sent the fetch a day back) and, once it has the
\* price, resolves the shares once and before every other getter; each ratio
\* of its map is computed from that price and those shares
C14_OnePriceOneShares ==
    \A t \in DOMAIN tasks :
       (Finished(t) /\ tasks[t].op = "get_vc2_metrics") =>
          /\ Times(t, "get_price") = 1
          /\ tasks[t].calls[1] = "get_price"
          /\ Len(RequestsOf(t)) = Len(tasks[t].responses)
          /\ Fetched(t) =>
                /\ Times(t, "get_shares_outstanding") = 1
                /\ tasks[t].calls[2] = "get_shares_outstanding"
          /\ tasks[t].result.kind = "ok" =>
                \A data \in {tasks[t].result.val}, price \in {LastResponse(t).value},
                   shares \in {SharesOf(t)} :
                   /\ \A ratio \in {"pb_ratio", "pe_ratio", "ps_ratio",
                                    "pcf_ratio"} :
                         /\ data[ratio][1] = price
                         /\ data[ratio][2][2] = shares
                   /\ data.shareholder_yield[2] = price * shares
                   /\ data.ev_ebitda[1] =
                         price * shares
                         + get_total_debt(stock, tasks[t].query_date,
                                          tasks[t].quarterly,
                                          tasks[t].tolerance).val
                         - get_cash(stock, tasks[t].query_date,
                                    tasks[t].quarterly, tasks[t].tolerance).val

\* a batch that stepped back a day for its price returned the six ratios
C14_Witness ==
    \E t \in DOMAIN tasks :
       /\ Finished(t)
       /\ tasks[t].op = "get_vc2_metrics"
       /\ tasks[t].result.kind = "ok"
       /\ Len(tasks[t].responses) > 1
       /\ DOMAIN tasks[t].result.val =
             {"pb_ratio", "pe_ratio", "ps_ratio", "pcf_ratio", "ev_ebitda",
              "shareholder_yield"}

\* the five payout getters of task t as they come out, unguarded
RawPayouts(t) ==
    payout_terms_unguarded(stock, tasks[t].query_date, tasks[t].quarterly,
                           tasks[t].tolerance)

\* C15: get_shareholder_yield succeeds exactly when its price was fetched
\* and the shares resolve; its value is then the signed sum of the five
\* payout terms, each counted as 0 when it does not resolve, over price
\* times shares
C15_ShareholderYieldSubstitution ==
    \A t \in DOMAIN tasks :
       (Finished(t) /\ tasks[t].op = "get_shareholder_yield") =>
          \A raw \in {RawPayouts(t)},
             shares \in {get_shares_outstanding(stock, tasks[t].query_date,
                                                tasks[t].quarterly,
                                                tasks[t].tolerance)} :
             IF Fetched(t) /\ shares.kind = "ok"
             THEN /\ tasks[t].result.kind = "ok"
                  /\ tasks[t].result.val =
                        <<Sum([i \in DOMAIN raw |->
                                 PayoutSigns[i] * or_zero(raw[i])]),
                          LastResponse(t).value * shares.val>>
             ELSE /\ tasks[t].result.kind # "ok"
                  /\ ~Fetched(t) =>
                        tasks[t].result.kind \in
                           {"TimeoutError", "ValueError", "KeyError"}
                  /\ Fetched(t) => tasks[t].result = shares

\* the yield 0 / market_cap of a company that filed none of the five terms
C15_Witness ==
    \E t \in DOMAIN tasks :
       /\ Finished(t)
       /\ tasks[t].op = "get_shareholder_yield"
       /\ \A i \in DOMAIN RawPayouts(t) : RawPayouts(t)[i].kind # "ok"
       /\ tasks[t].result.kind = "ok"
       /\ tasks[t].result.val[1] = 0

-----------------------------------------------------------------------------
(* Claims about the strict concepts *)

StrictOps ==
    {"get_book_value_per_share", "get_earnings_per_share",
     "get_sales_per_share", "get_working_capital", "get_operating_cash_flow",
     "get_ocf_per_share", "get_ebitda", "get_ufcf"}

\* the outcomes of the sub-terms of the call that are not substituted, in the
\* order the concept resolves them
StrictTerms ==
    CASE call.op = "get_book_value_per_share" ->
            <<get_stockholders_equity(stock, call.query_date, call.quarterly,
                                      call.tolerance),
              get_shares_outstanding(stock, call.query_date, call.quarterly,
                                     call.tolerance)>>
      [] call.op = "get_earnings_per_share" ->
            <<get_net_income(stock, call.query_date, call.quarterly,
                             call.tolerance),
              get_shares_outstanding(stock, call.query_date, call.quarterly,
                                     call.tolerance)>>
      [] call.op = "get_sales_per_share" ->
            <<get_revenue(stock, call.query_date, call.quarterly,
                          call.tolerance),
              get_shares_outstanding(stock, call.query_date, call.quarterly,
                                     call.tolerance)>>
      [] call.op = "get_working_capital" ->
            <<get_current_assets(stock, call.query_date, call.quarterly,
                                 call.tolerance),
              get_current_liabilities(stock, call.query_date, call.quarterly,
                                      call.tolerance)>>
      [] call.op = "get_operating_cash_flow" ->
            <<get_net_income(stock, call.query_date, call.quarterly,
                             call.tolerance),
              get_depreciation_and_amortization(stock, call.query_date,
                                                call.quarterly, call.tolerance),
              get_change_in_working_capital(stock, call.query_date,
                                            call.quarterly, call.tolerance)>>
      [] call.op = "get_ocf_per_share" ->
            <<get_operating_cash_flow(stock, call.query_date, call.quarterly,
                                      call.tolerance),
              get_shares_outstanding(stock, call.query_date, call.quarterly,
                                     call.tolerance)>>
      [] call.op = "get_ebitda" ->
            <<get_ebit(stock, call.query_date, call.quarterly, call.tolerance),
              get_depreciation_and_amortization(stock, call.query_date,
                                                call.quarterly, call.tolerance)>>
      [] call.op = "get_ufcf" ->
            <<get_ebit(stock, call.query_date, call.quarterly, call.tolerance),
              get_tax_expense(stock, call.query_date, call.quarterly,
                              call.tolerance),
              get_depreciation_and_amortization(stock, call.query_date,
                                                call.quarterly, call.tolerance),
              get_capex(stock, call.query_date, call.quarterly, call.tolerance),
              get_change_in_working_capital(stock, call.query_date,
                                            call.quarterly, call.tolerance)>>

\* the outcome of the sub-term of the call that is declared zero-substituted
SubstitutedTerm ==
    CASE call.op = "get_book_value_per_share" ->
            get_preferred_stock(stock, call.query_date, call.quarterly,
                                call.tolerance)
      [] call.op = "get_earnings_per_share" ->
            get_preferred_dividends(stock, call.query_date, call.quarterly,
                                    call.tolerance)
      [] OTHER -> Value(0)

\* the value of the concept from the values v of its strict sub-terms and the
\* value z standing for its substituted one
Combined(v, z) ==
    CASE call.op \in {"get_book_value_per_share", "get_earnings_per_share"} ->
            <<v[1] - z, v[2]>>
      [] call.op \in {"get_sales_per_share", "get_ocf_per_share"} ->
            <<v[1], v[2]>>
      [] call.op = "get_working_capital" -> v[1] - v[2]
      [] call.op = "get_operating_cash_flow" -> v[1] + v[2] - v[3]
      [] call.op = "get_ebitda" -> v[1] + v[2]
      [] call.op = "get_ufcf" -> v[1] - v[2] + v[3] - v[4] - v[5]

\* C16: a strict concept ends with the failure of the first of its
\* non-substituted sub-terms that fails, and otherwise returns the value of
\* all of them, its zero-substituted sub-term counted as 0 when that one
\* fails: never a value when a strict sub-term failed, never a failure when
\* only the substituted one did
C16_StrictPropagation ==
    (pc = "done" /\ call.op \in StrictOps) =>
       \A terms \in {StrictTerms} :
          IF \A i \in DOMAIN terms : terms[i].kind = "ok"
          THEN /\ result.kind = "ok"
               /\ result.val =
                     Combined([i \in DOMAIN terms |-> terms[i].val],
                              or_zero(SubstitutedTerm))
          ELSE \E i \in DOMAIN terms :
                  /\ terms[i].kind # "ok"
                  /\ \A j \in 1..(i - 1) : terms[j].kind = "ok"
                  /\ result = terms[i]

\* a book value per share of a company that filed no preferred stock
C16_Witness ==
    /\ pc = "done"
    /\ call.op = "get_book_value_per_share"
    /\ SubstitutedTerm.kind # "ok"
    /\ result.kind = "ok"

\* an unlevered free cash flow that failed with the failure of its capex
C16_WitnessFailure ==
    /\ pc = "done"
    /\ call.op = "get_ufcf"
    /\ StrictTerms[4].kind # "ok"
    /\ result = StrictTerms[4]

-----------------------------------------------------------------------------
(* Claims about the price fetch *)

\* C17: a request that runs into its timeout ends the coroutine that awaits
\* it, with a timeout error (the builtin one or the one of the event loop,
\* never the ValueError or KeyError of a value not found): the timed-out
\* request is the last one the coroutine sent
C17_TimeoutNoRetry ==
    \A t \in DOMAIN tasks :
       \A k \in DOMAIN tasks[t].responses :
          tasks[t].responses[k].status = "timeout" =>
             /\ tasks[t].pc = "done"
             /\ k = Len(tasks[t].responses)
             /\ Len(RequestsOf(t)) = k
             /\ tasks[t].result.kind = "TimeoutError"
             /\ tasks[t].result.detail \in {"TimeoutError", "asyncio.TimeoutError"}

\* a market cap whose second request timed out
C17_Witness ==
    \E t \in DOMAIN tasks :
       /\ Finished(t)
       /\ tasks[t].op = "get_market_cap"
       /\ Len(tasks[t].responses) = 2
       /\ LastResponse(t).status = "timeout"
       /\ tasks[t].result.kind = "TimeoutError"

\* task t is a call of get_price or get_rsi for an explicit past day
DatedFetch(t) ==
    /\ tasks[t].op \in {"get_price", "get_rsi"}
    /\ tasks[t].query_date \notin {None, Today}

\* the response is one that ends the fetch with a value: by its status alone
\* (status OK), or by what the fetch looks at (status OK and, for the RSI,
\* results that hold values)
Good(t, response, by_status) ==
    IF by_status THEN response.status = "OK"
    ELSE answered(tasks[t].fetch, response)

\* the day n days before the query date of task t
DaysBefore(t, n) == strftime(strptime(tasks[t].query_date) - n)

\* what a dated fetch did so far, good being the responses taken by status
\* alone or not: at most three requests, for q, q - 1 and q - 2 in this
\* order; every response before the last was neither good nor a timeout; the
\* fetch returned the value of a good last response, and failed with
\* ValueError on a third response that was not good
ThreeRequests(t, by_status) ==
    /\ Len(RequestsOf(t)) <= MaxBackwardSteps + 1
    /\ \A k \in DOMAIN RequestsOf(t) :
          /\ RequestsOf(t)[k].date = DaysBefore(t, k - 1)
          /\ RequestsOf(t)[k].fetch = tasks[t].fetch
    /\ \A k \in 1..(Len(tasks[t].responses) - 1) :
          /\ ~Good(t, tasks[t].responses[k], by_status)
          /\ tasks[t].responses[k].status # "timeout"
    /\ tasks[t].pc = "awaiting" =>
          Len(RequestsOf(t)) = Len(tasks[t].responses) + 1
    /\ Finished(t) =>
          /\ Len(RequestsOf(t)) = Len(tasks[t].responses)
          /\ CASE Good(t, LastResponse(t), by_status) ->
                     tasks[t].result = Value(LastResponse(t).value)
               [] LastResponse(t).status = "timeout" ->
                     tasks[t].result.kind = "TimeoutError"
               [] OTHER ->
                     /\ Len(tasks[t].responses) = MaxBackwardSteps + 1
                     /\ tasks[t].result.kind = "ValueError"

\* C18 as stated: a dated get_price or get_rsi sends at most three requests,
\* for q, q - 1 and q - 2, returns the value of the first response whose
\* status is OK, and fails with ValueError when the third has another status
C18_FirstOkResponse ==
    \A t \in DOMAIN tasks : DatedFetch(t) => ThreeRequests(t, TRUE)

\* C18 amended: a dated get_price or get_rsi ends (every request being
\* answered or timing out) after at most three requests, for q, q - 1 and
\* q - 2 in this order; it returns the value of the first response that is
\* OK and, for the RSI, holds values, and fails with ValueError when the
\* third response is none; an RSI response that is OK without values sends
\* the fetch one day back like a response that is not OK
C18_ThreeRequests ==
    /\ [](\A t \in DOMAIN tasks : DatedFetch(t) => ThreeRequests(t, FALSE))
    /\ (tasks # NoTasks) ~> (tasks # NoTasks /\ tasks[1].pc = "done")

\* an RSI taken from the third response after an OK response without values
C18_Witness ==
    \E t \in DOMAIN tasks :
       /\ Finished(t)
       /\ DatedFetch(t)
       /\ tasks[t].op = "get_rsi"
       /\ Len(tasks[t].responses) = MaxBackwardSteps + 1
       /\ \E k \in 1..MaxBackwardSteps :
             /\ tasks[t].responses[k].status = "OK"
             /\ ~tasks[t].responses[k].values
       /\ tasks[t].result.kind = "ok"

-----------------------------------------------------------------------------
(* Claims about the store *)

\* the outcome of making the call again, on the store as it is now
Replay ==
    CASE call.op = "get_metric" ->
            get_metric(stock, call.tags[1], call.units, call.query_date,
                       call.quarterly, call.tolerance)
      [] call.op = "get_concept" ->
            get_concept(stock, call.concept, call.tags, call.units,
                        call.query_date, call.quarterly, call.tolerance)
      [] call.op = "get_cash" ->
            get_cash(stock, call.query_date, call.quarterly, call.tolerance)

-----------------------------------------------------------------------------
(* Claims about concurrent coroutines *)

\* the date of the k-th request of task t when it runs alone
AloneDate(t, k) ==
    IF latest(tasks[t].query_date) THEN None
    ELSE strftime(strptime(tasks[t].query_date) - (k - 1))

\* what the fetch of task t does with its k-th response when it runs alone:
\* its loop counter is then the number of responses it had before
AloneStep(t, k) ==
    fetch_step(tasks[t].fetch, AloneDate(t, k), k - 1, tasks[t].responses[k])

\* the outcome of task t run alone on the store and given the same responses
RunAlone(t) ==
    after_price(stock, tasks[t],
                AloneStep(t, Len(tasks[t].responses)).outcome).result

\* C20: however two coroutines on one Stock interleave at their awaits, each
\* sends the requests, stops at the response and returns the result it would
\* alone, given the same responses; and no step of any of them changes the
\* Stock
C20_NoSharedState ==
    /\ [][stock' = stock]_vars
    /\ [](\A t \in DOMAIN tasks :
             /\ \A k \in DOMAIN tasks[t].responses :
                   /\ RequestsOf(t)[k].date = AloneDate(t, k)
                   /\ AloneStep(t, k).more
                         <=> (k < Len(tasks[t].responses)
                              \/ tasks[t].pc = "awaiting")
             /\ Len(RequestsOf(t)) =
                   Len(tasks[t].responses)
                   + (IF tasks[t].pc = "awaiting" THEN 1 ELSE 0)
             /\ Finished(t) => tasks[t].result = RunAlone(t))

\* two coroutines finished, the second started while the first was waiting
\* and both resumed in turns
C20_Witness ==
    /\ Len(tasks) = 2
    /\ Finished(1)
    /\ Finished(2)
    /\ tasks[1].result.kind = "ok"
    /\ tasks[2].result.kind = "ok"
    /\ Len(requests) >= 4
    /\ requests[2].task = 2
    /\ requests[3].task = 1
    /\ requests[4].task = 2

-----------------------------------------------------------------------------
(* SpecInterest: get_interest_expense and get_ebit on the tables of a       *)
(* company that filed interest under its first two tags (each nothing, a    *)
(* value too old for the window, or a recent annual value of either sign),  *)
(* net income and tax expense.                                              *)

InterestItems ==
    <<InterestExpenseTags[1], InterestExpenseTags[2], NetIncomeTags[1],
      TaxExpenseTags[1]>>

InterestValues == <<10, 12, 50, 5>>

InterestProfile(presence, sign) ==
    [i \in DOMAIN InterestItems |->
        CASE presence[i] = "absent" -> [filed |-> None, val |-> 0, fp |-> "FY"]
          [] presence[i] = "stale" ->
                [filed |-> OldDate, val |-> InterestValues[i], fp |-> "Q2"]
          [] presence[i] = "recent" ->
                [filed |-> RecentDate,
                 val |-> IF i <= 2 THEN sign[i] * InterestValues[i]
                         ELSE InterestValues[i],
                 fp |-> "FY"]]

InitInterest ==
    /\ \E presence \in [DOMAIN InterestItems -> Presence],
          sign \in [1..2 -> {-1, 1}] :
          stock = Stock(Ticker,
                    process_sec_json(
                        Facts(InterestItems, InterestProfile(presence, sign))))
    /\ pc = "idle"
    /\ call = NoCall
    /\ result = NoResult
    /\ tasks = NoTasks
    /\ requests = <<>>
    /\ clock = 0
    /\ last_update = None

NextInterest == GetInterestExpense \/ GetEbit \/ Return

SpecInterest == InitInterest /\ [][NextInterest]_vars

-----------------------------------------------------------------------------
(* Claims about interest expense *)

\* the interest-expense tags tried before position k all have a series
EarlierFiled(k) ==
    \A j \in 1..(k - 1) : HasSeries(InterestExpenseTags[j], "USD")

\* the second level of get_ebit at the call's arguments, without the interest
SecondLevelRest ==
    <<get_net_income(stock, call.query_date, call.quarterly, call.tolerance),
      get_tax_expense(stock, call.query_date, call.quarterly, call.tolerance)>>

\* C21: get_interest_expense never returns a negative number: what it returns
\* is the absolute value of the most recent eligible value of the first
\* interest-expense tag with eligible data (it returns whenever the tags
\* before that one have a series), and the interest term that the second
\* level of get_ebit adds to net income and tax expense is never negative.
C21_InterestNonNegative ==
    /\ Done("get_interest_expense") =>
          LET R == Resolving(InterestExpenseTags, "USD")
          IN  /\ result.kind = "ok" =>
                    /\ result.val >= 0
                    /\ R # {}
                    /\ result.tag = InterestExpenseTags[First(R)]
                    /\ \E i \in Eligible(result.tag, "USD") :
                          /\ Rows[i].filing_date = result.row
                          /\ abs(Rows[i].cells[ColumnOf(result.tag, "USD")])
                                = result.val
              /\ (R # {} /\ EarlierFiled(First(R))) => result.kind = "ok"
    /\ (/\ Done("get_ebit")
        /\ result.kind = "ok"
        /\ AllOk(SecondLevelRest)
        /\ get_interest_expense(stock, call.query_date, call.quarterly,
                                call.tolerance).kind = "ok")
          => result.val - SecondLevelRest[1].val - SecondLevelRest[2].val >= 0

\* C21 witness: the value returned comes from the second interest tag, which
\* the company filed as a negative number
C21_Witness ==
    /\ Done("get_interest_expense")
    /\ result.kind = "ok"
    /\ result.tag = InterestExpenseTags[2]
    /\ \E i \in Eligible(result.tag, "USD") :
          Rows[i].cells[ColumnOf(result.tag, "USD")] = -result.val
    /\ result.val > 0

-----------------------------------------------------------------------------
(* SpecTax: get_tax_expense and get_net_income on the tables of a company   *)
(* that filed, under its first two tax tags, ProfitLoss and NetIncomeLoss,  *)
(* nothing, a value too old for the window, or a recent annual value.       *)

TaxItems ==
    <<TaxExpenseTags[1], TaxExpenseTags[2], NetIncomeTags[2], NetIncomeTags[1]>>

TaxValues == <<5, 7, 58, 50>>

TaxProfile(presence) ==
    [i \in DOMAIN TaxItems |->
        CASE presence[i] = "absent" -> [filed |-> None, val |-> 0, fp |-> "FY"]
          [] presence[i] = "stale" ->
                [filed |-> OldDate, val |-> TaxValues[i], fp |-> "Q2"]
          [] presence[i] = "recent" ->
                [filed |-> RecentDate, val |-> TaxValues[i], fp |-> "FY"]]

InitTax ==
    /\ \E presence \in [DOMAIN TaxItems -> Presence] :
          stock = Stock(Ticker,
                    process_sec_json(Facts(TaxItems, TaxProfile(presence))))
    /\ pc = "idle"
    /\ call = NoCall
    /\ result = NoResult
    /\ tasks = NoTasks
    /\ requests = <<>>
    /\ clock = 0
    /\ last_update = None

NextTax == GetTaxExpense \/ GetNetIncome \/ Return

SpecTax == InitTax /\ [][NextTax]_vars

-----------------------------------------------------------------------------
(* Claims about tax expense *)

\* pretax income and net income at the call's arguments
TaxFallbackTerms ==
    <<get_concept(stock, "pretax income", <<"ProfitLoss">>, "USD",
                  call.query_date, call.quarterly, call.tolerance),
      get_net_income(stock, call.query_date, call.quarterly, call.tolerance)>>

\* C22: get_tax_expense returns the value of the first of its three tax tags
\* that has an eligible point; only when none of the three has one does it
\* return ProfitLoss minus net_income, and then it fails when ProfitLoss or
\* net_income does not resolve.
C22_TaxFirstTagElseDerived ==
    Done("get_tax_expense") =>
        LET R == Resolving(TaxExpenseTags, "USD")
        IN  IF R # {}
            THEN /\ result.kind = "ok"
                 /\ result.tag = TaxExpenseTags[First(R)]
                 /\ ReadFrom(result.tag, "USD", Eligible(result.tag, "USD"))
            ELSE IF AllOk(TaxFallbackTerms)
            THEN /\ result.kind = "ok"
                 /\ result.val = TaxFallbackTerms[1].val - TaxFallbackTerms[2].val
            ELSE result.kind # "ok"

\* C25: in the fallback of get_tax_expense (no tax tag has an eligible point),
\* whenever NetIncomeLoss has no eligible point but ProfitLoss has one,
\* net_income resolves to the ProfitLoss value and the tax expense returned
\* is exactly 0; the fallback returns a non-zero tax expense only when
\* NetIncomeLoss and ProfitLoss both have an eligible point and differ.
C25_FallbackZeroWithoutNetIncomeLoss ==
    (Done("get_tax_expense") /\ Resolving(TaxExpenseTags, "USD") = {}) =>
        /\ (Eligible("NetIncomeLoss", "USD") = {}
                /\ Eligible("ProfitLoss", "USD") # {}) =>
              /\ TaxFallbackTerms[2].kind = "ok"
              /\ TaxFallbackTerms[2].tag = "ProfitLoss"
              /\ result.kind = "ok"
              /\ result.val = 0
        /\ (result.kind = "ok" /\ result.val # 0) =>
              /\ Eligible("NetIncomeLoss", "USD") # {}
              /\ Eligible("ProfitLoss", "USD") # {}
              /\ TaxFallbackTerms[1].val # TaxFallbackTerms[2].val

-----------------------------------------------------------------------------
(* SpecLater: between a call and its return the company files once more,   *)
(* at a date after the date the call resolved at, and process_sec_json is   *)
(* run again on the company's file.                                         *)

LaterItems == <<MetricItems[1], MetricItems[2], "Assets">>

LaterDates == {<<2023, 2, 2>>, <<2023, 2, 15>>}

LaterVal == 909

\* the entries of one row of the table, in the order of the items
RECURSIVE RowEntries(_, _)
RowEntries(row, items) ==
    IF items = <<>> THEN <<>>
    ELSE (IF (Head(items) \o "_USD") \in DOMAIN row.cells
          THEN <<[item |-> Head(items), unit |-> "USD",
                  filed |-> row.filing_date,
                  val |-> row.cells[Head(items) \o "_USD"],
                  fp |-> IF row.annual THEN "FY" ELSE "Q1"]>>
          ELSE <<>>)
         \o RowEntries(row, Tail(items))

\* a company file (sec_data) of which the table is the processed form
RECURSIVE sec_json(_)
sec_json(rows) ==
    IF rows = <<>> THEN <<>>
    ELSE RowEntries(Head(rows), LaterItems) \o sec_json(Tail(rows))

\* the company files one more entry, which the loops visit last; at most one
\* such filing is added to a table
FileLater ==
    /\ pc = "done"
    /\ \A i \in DOMAIN Rows : \A c \in DOMAIN Rows[i].cells :
          Rows[i].cells[c] # LaterVal
    /\ \E item \in {LaterItems[i] : i \in DOMAIN LaterItems},
          filed \in {d \in LaterDates : strptime(d) > strptime(AtDate)},
          fp \in FiscalPeriods :
          stock' = Stock(stock.ticker,
                     process_sec_json(
                        sec_json(stock.financials.rows)
                           \o <<[item |-> item, unit |-> "USD", filed |-> filed,
                                 val |-> LaterVal, fp |-> fp]>>))
    /\ UNCHANGED <<pc, call, result, tasks, requests, clock, last_update>>

NextLater == GetConcept \/ GetCash \/ FileLater \/ Return

SpecLater == Init /\ [][NextLater]_vars

\* C23: no look-ahead: the outcome of a concept getter at query date D, value
\* or failure kind, is still the outcome of the same call after filings dated
\* strictly after D were added to the store, the first filing ever of a tag
\* included.
C23_NoLookAhead ==
    (pc = "done" /\ call.op \in {"get_concept", "get_cash"}) =>
        /\ result.kind = Replay.kind
        /\ result.kind = "ok" => result = Replay

-----------------------------------------------------------------------------
(* SpecWindows: the one-year deltas on the tables of a company whose        *)
(* filings lie around the edges of the two windows: 371, 365 and 364 days   *)
(* before 2023-02-01, well before and well inside.                          *)

WindowDates ==
    <<<<2021, 6, 1>>, <<2022, 1, 26>>, <<2022, 2, 1>>, <<2022, 2, 2>>,
      <<2023, 1, 1>>>>

WindowTolerances == {4, DefaultTolerance, DefaultTolerance + 1}

\* the annual entries of one tag filed on the dates of WindowDates chosen by on
RECURSIVE WindowFacts(_, _, _, _)
WindowFacts(item, base, on, j) ==
    IF j > Len(WindowDates) THEN <<>>
    ELSE (IF j \in on
          THEN <<[item |-> item, unit |-> "USD", filed |-> WindowDates[j],
                  val |-> base + j, fp |-> "FY"]>>
          ELSE <<>>)
         \o WindowFacts(item, base, on, j + 1)

InitWindows ==
    /\ \/ \E a \in SUBSET (DOMAIN WindowDates), l \in SUBSET (DOMAIN WindowDates) :
             stock = Stock(Ticker, process_sec_json(
                        WindowFacts("AssetsCurrent", 500, a, 1)
                        \o WindowFacts("LiabilitiesCurrent", 200, l, 1)))
       \/ \E p \in SUBSET (DOMAIN WindowDates), d \in {{}, {5}} :
             stock = Stock(Ticker, process_sec_json(
                        WindowFacts("PropertyPlantAndEquipmentGross", 800, p, 1)
                        \o WindowFacts(DepreciationAndAmortizationTags[1], 100,
                                       d, 1)))
    /\ pc = "idle"
    /\ call = NoCall
    /\ result = NoResult
    /\ tasks = NoTasks
    /\ requests = <<>>
    /\ clock = 0
    /\ last_update = None

GetChangeInWorkingCapitalAt ==
    /\ pc = "idle"
    /\ \E query_date \in {None, QueryDate}, tolerance \in WindowTolerances :
          /\ call' = Call("get_change_in_working_capital", "", <<>>, "",
                          query_date, FALSE, tolerance)
          /\ result' = get_change_in_working_capital(stock, query_date, FALSE,
                                                     tolerance)
    /\ pc' = "done"
    /\ UNCHANGED <<stock, tasks, requests, clock, last_update>>

GetCapexAt ==
    /\ pc = "idle"
    /\ \E query_date \in {None, QueryDate}, tolerance \in WindowTolerances :
          /\ call' = Call("get_capex", "", <<>>, "", query_date, FALSE,
                          tolerance)
          /\ result' = get_capex(stock, query_date, FALSE, tolerance)
    /\ pc' = "done"
    /\ UNCHANGED <<stock, tasks, requests, clock, last_update>>

NextWindows == GetChangeInWorkingCapitalAt \/ GetCapexAt \/ Return

SpecWindows == InitWindows /\ [][NextWindows]_vars

-----------------------------------------------------------------------------
(* Claims about the windows of the one-year deltas *)

\* the rows filed inside the window of T weeks that ends at D
WindowRows(D, T) == {i \in DOMAIN Rows : InWindow(Rows[i].filing_date, D, T)}

\* the single-tag resolutions a delta makes: <<current, prior>> per term
DeltaPairs ==
    IF call.op = "get_capex"
    THEN <<<<get_property_plant_equipment(stock, AtDate, call.quarterly,
                                          call.tolerance),
             get_property_plant_equipment(stock, one_year_ago(AtDate),
                                          call.quarterly, call.tolerance)>>>>
    ELSE <<<<get_concept(stock, "current assets", <<"AssetsCurrent">>, "USD",
                         AtDate, call.quarterly, call.tolerance),
             get_concept(stock, "current assets", <<"AssetsCurrent">>, "USD",
                         one_year_ago(AtDate), call.quarterly, call.tolerance)>>,
           <<get_concept(stock, "current liabilities", <<"LiabilitiesCurrent">>,
                         "USD", AtDate, call.quarterly, call.tolerance),
             get_concept(stock, "current liabilities", <<"LiabilitiesCurrent">>,
                         "USD", one_year_ago(AtDate), call.quarterly,
                         call.tolerance)>>>>

BothResolve(pair) == pair[1].kind = "ok" /\ pair[2].kind = "ok"

\* C24: with a tolerance of at most 52 weeks the window of the one-year-prior
\* resolution lies wholly before the window of the current-date resolution,
\* so the prior value of get_change_in_working_capital and of the capex
\* fallback comes from a filing strictly older than the current value's; from
\* 53 weeks on the windows overlap, and when both resolutions select the same
\* filing the delta of the term is 0.
C24_WindowsDisjointUpTo52 ==
    (Done("get_change_in_working_capital") \/ Done("get_capex")) =>
        /\ call.tolerance <= DefaultTolerance =>
              /\ \A i \in WindowRows(one_year_ago(AtDate), call.tolerance),
                    j \in WindowRows(AtDate, call.tolerance) :
                    strptime(Rows[i].filing_date) < strptime(Rows[j].filing_date)
              /\ \A k \in DOMAIN DeltaPairs :
                    BothResolve(DeltaPairs[k]) =>
                       strptime(DeltaPairs[k][2].row)
                          < strptime(DeltaPairs[k][1].row)
        /\ call.tolerance > DefaultTolerance =>
              /\ strptime(one_year_ago(AtDate))
                    >= strptime(AtDate) - 7 * call.tolerance
              /\ (/\ result.kind = "ok"
                  /\ \A k \in DOMAIN DeltaPairs :
                        /\ BothResolve(DeltaPairs[k])
                        /\ DeltaPairs[k][1].row = DeltaPairs[k][2].row)
                    => result.val =
                          IF call.op = "get_capex"
                          THEN get_depreciation_and_amortization(
                                  stock, AtDate, call.quarterly,
                                  call.tolerance).val
                          ELSE 0

\* C24 witness: with 53 weeks both resolutions of current assets and of
\* current liabilities select the same filing and the change is 0
C24_Witness ==
    /\ Done("get_change_in_working_capital")
    /\ call.tolerance = DefaultTolerance + 1
    /\ result.kind = "ok"
    /\ result.val = 0
    /\ \A k \in DOMAIN DeltaPairs :
          /\ BothResolve(DeltaPairs[k])
          /\ DeltaPairs[k][1].row = DeltaPairs[k][2].row

-----------------------------------------------------------------------------
(* Claims about the batch and the individual ratio methods *)

\* what the individual ratio methods give on the store of the batch task t,
\* for its arguments and the price its fetch ended with
Individually(t) ==
    [pb_ratio |->
        get_pb_ratio(stock, Value(LastResponse(t).value), tasks[t].query_date,
                     tasks[t].quarterly, tasks[t].tolerance),
     pe_ratio |->
        get_pe_ratio(stock, Value(LastResponse(t).value), tasks[t].query_date,
                     tasks[t].quarterly, tasks[t].tolerance),
     ps_ratio |->
        get_ps_ratio(stock, Value(LastResponse(t).value), tasks[t].query_date,
                     tasks[t].quarterly, tasks[t].tolerance),
     pcf_ratio |->
        get_pcf_ratio(stock, Value(LastResponse(t).value), tasks[t].query_date,
                      tasks[t].quarterly, tasks[t].tolerance),
     ev_ebitda |->
        get_ev_to_ebitda(stock, Value(LastResponse(t).value),
                         tasks[t].query_date, tasks[t].quarterly,
                         tasks[t].tolerance),
     shareholder_yield |->
        get_shareholder_yield(stock, Value(LastResponse(t).value),
                              tasks[t].query_date, tasks[t].quarterly,
                              tasks[t].tolerance)]

\* C26: whenever get_vc2_metrics succeeds, each entry of its map equals what
\* the corresponding individual method returns for the same store, price and
\* arguments.
C26_BatchEqualsIndividual ==
    \A t \in DOMAIN tasks :
       (Finished(t) /\ tasks[t].op = "get_vc2_metrics"
            /\ tasks[t].result.kind = "ok") =>
          \A alone \in {Individually(t)} :
             /\ DOMAIN tasks[t].result.val = DOMAIN alone
             /\ \A ratio \in DOMAIN alone :
                   /\ alone[ratio].kind = "ok"
                   /\ alone[ratio].val = tasks[t].result.val[ratio]

\* C26 witness: a batch that succeeded on a company with preferred dividends
\* and with some payout term missing
C26_Witness ==
    \E t \in DOMAIN tasks :
       /\ Finished(t)
       /\ tasks[t].op = "get_vc2_metrics"
       /\ tasks[t].result.kind = "ok"
       /\ get_preferred_dividends(stock, tasks[t].query_date, tasks[t].quarterly,
                                  tasks[t].tolerance).kind = "ok"
       /\ \E i \in DOMAIN RawPayouts(t) : RawPayouts(t)[i].kind # "ok"

-----------------------------------------------------------------------------
(* Claims about the price a ratio method asks for *)

\* C27: every request a ratio method sends asks for the price of the Stock's
\* own ticker symbol, and its first request asks for the caller's query date
\* (the latest price when that is None or today).
C27_OwnTickerAndDate ==
    \A t \in DOMAIN tasks :
       tasks[t].op \in RatioOps =>
          /\ \A k \in DOMAIN RequestsOf(t) :
                /\ RequestsOf(t)[k].fetch = "price"
                /\ RequestsOf(t)[k].ticker = stock.ticker
          /\ RequestsOf(t)[1].date =
                IF tasks[t].query_date = None \/ tasks[t].query_date = Today
                THEN None ELSE tasks[t].query_date

-----------------------------------------------------------------------------
(* Claims about the enterprise value *)

\* shares, total debt, cash and EBITDA on the store, for the arguments of task t
ValueTerms(t) ==
    <<get_shares_outstanding(stock, tasks[t].query_date, tasks[t].quarterly,
                             tasks[t].tolerance),
      get_total_debt(stock, tasks[t].query_date, tasks[t].quarterly,
                     tasks[t].tolerance),
      get_cash(stock, tasks[t].query_date, tasks[t].quarterly,
               tasks[t].tolerance),
      get_ebitda(stock, tasks[t].query_date, tasks[t].quarterly,
                 tasks[t].tolerance)>>

\* price * shares + total_debt - cash of terms that all resolved
EnterpriseValue(price, terms) ==
    price * terms[1].val + terms[2].val - terms[3].val

\* C28: get_enterprise_value is market_cap + total_debt - cash with neither
\* total_debt nor cash replaced by 0: it fails when the market cap (price or
\* shares), total_debt or cash fails; get_ev_to_ebitda is that value over
\* EBITDA and fails whenever the enterprise value or EBITDA fails.
C28_EnterpriseValueStrict ==
    \A t \in DOMAIN tasks :
       (Finished(t) /\ tasks[t].op \in {"get_enterprise_value",
                                        "get_ev_to_ebitda"}) =>
          \A terms \in {ValueTerms(t)} :
             IF /\ Fetched(t)
                /\ \A k \in 1..3 : terms[k].kind = "ok"
                /\ tasks[t].op = "get_ev_to_ebitda" => terms[4].kind = "ok"
             THEN /\ tasks[t].result.kind = "ok"
                  /\ tasks[t].result.val =
                        IF tasks[t].op = "get_enterprise_value"
                        THEN EnterpriseValue(LastResponse(t).value, terms)
                        ELSE <<EnterpriseValue(LastResponse(t).value, terms),
                               terms[4].val>>
             ELSE tasks[t].result.kind # "ok"

\* C28 witness: the price was fetched, the shares and the total debt resolve,
\* the cash does not, and get_enterprise_value failed
C28_Witness ==
    \E t \in DOMAIN tasks :
       /\ Finished(t)
       /\ tasks[t].op = "get_enterprise_value"
       /\ Fetched(t)
       /\ ValueTerms(t)[1].kind = "ok"
       /\ ValueTerms(t)[2].kind = "ok"
       /\ ValueTerms(t)[3].kind # "ok"
       /\ tasks[t].result.kind # "ok"

-----------------------------------------------------------------------------
(* SpecProcess: process_sec_json run on company files of at most MaxEntries *)
(* entries under one dei tag and one us-gaap tag, filed on two days, and a  *)
(* Stock built on the table it saved.  A file is the sequence of its        *)
(* entries, each with the taxonomy it stands under.                         *)

ProcessDates == {<<2023, 1, 1>>, <<2023, 1, 2>>}

FileEntries ==
    {[taxonomy |-> x[1], item |-> x[2], unit |-> x[3], filed |-> d, val |-> v,
      fp |-> f] :
        x \in {<<"dei", SharesOutstandingTags[1], "shares">>,
               <<"us-gaap", CashTags[1], "USD">>},
        d \in ProcessDates, v \in 1..2, f \in FiscalPeriods}

\* the entries in the order the file lists them
file_order(file) == file

\* the loop over sec_data["facts"]["dei"], then the loop over
\* sec_data["facts"]["us-gaap"]
visit_order(file) ==
    SelectSeq(file, LAMBDA e : e.taxonomy = "dei")
       \o SelectSeq(file, LAMBDA e : e.taxonomy = "us-gaap")

InitProcess ==
    /\ stock = Stock(Ticker, process_sec_json(visit_order(<<>>)))
    /\ pc = "idle"
    /\ call = NoCall
    /\ result = NoResult
    /\ tasks = NoTasks
    /\ requests = <<>>
    /\ clock = 0
    /\ last_update = None

\* process_sec_json(ticker) on the file, then Stock(ticker)
ProcessSecJson ==
    /\ pc = "idle"
    /\ \E file \in SecData(FileEntries) :
          /\ call' = Call("process_sec_json", "", file, "", None, FALSE, 0)
          /\ stock' = Stock(Ticker, process_sec_json(visit_order(file)))
    /\ result' = NoResult
    /\ pc' = "done"
    /\ UNCHANGED <<tasks, requests, clock, last_update>>

NextProcess == ProcessSecJson \/ Return

SpecProcess == InitProcess /\ [][NextProcess]_vars

-----------------------------------------------------------------------------
(* Claims about process_sec_json *)

\* entry b of the file is processed after entry a
ProcessedAfter(file, a, b) ==
    \/ file[a].taxonomy = "dei" /\ file[b].taxonomy = "us-gaap"
    \/ file[a].taxonomy = file[b].taxonomy /\ a < b

\* the entry of S that is processed last
LastProcessed(file, S) ==
    CHOOSE k \in S : \A j \in S \ {k} : ProcessedAfter(file, j, k)

\* the entries of the file filed on the day d
FiledOn(file, d) == {k \in DOMAIN file : file[k].filed = d}

\* C29: process_sec_json is last-write-wins per filing date: the table has one
\* row per filing date; the value stored for a (tag, unit) on that date is
\* that of the last entry processed for it; the row's single annual flag,
\* shared by all tags, says whether the last entry processed for that date
\* (all dei entries, then all us-gaap entries) has fiscal period FY.
C29_LastWriteWins ==
    Done("process_sec_json") =>
        \A file \in {call.tags} :
           /\ Len(Rows) = Cardinality({file[k].filed : k \in DOMAIN file})
           /\ \A i \in DOMAIN Rows :
                 \A S \in {FiledOn(file, Rows[i].filing_date)} :
                    /\ S # {}
                    /\ Rows[i].annual = (file[LastProcessed(file, S)].fp = "FY")
                    /\ DOMAIN Rows[i].cells =
                          {ColumnOf(file[k].item, file[k].unit) : k \in S}
                    /\ \A k \in S :
                          Rows[i].cells[ColumnOf(file[k].item, file[k].unit)] =
                             file[LastProcessed(file,
                                     {j \in S : file[j].item = file[k].item})].val

\* C29 witness: the company filed its shares outstanding with period FY only,
\* the flag of that day comes from the Cash entry of the same day, with
\* another period, and an annual-only get_metric does not find the shares
C29_Witness ==
    /\ Done("process_sec_json")
    /\ \E k \in DOMAIN call.tags :
          /\ call.tags[k].item = SharesOutstandingTags[1]
          /\ \A j \in DOMAIN call.tags :
                call.tags[j].item = SharesOutstandingTags[1]
                   => call.tags[j].fp = "FY"
          /\ \E i \in DOMAIN Rows :
                /\ Rows[i].filing_date = call.tags[k].filed
                /\ ~Rows[i].annual
          /\ get_metric(stock, SharesOutstandingTags[1], "shares",
                        call.tags[k].filed, FALSE, 0).kind = "ValueError"
          /\ get_metric(stock, SharesOutstandingTags[1], "shares",
                        call.tags[k].filed, TRUE, 0).kind = "ok"

-----------------------------------------------------------------------------
(* processor.download_sec_data.  Time is counted in ticks since the start   *)
(* of a day; the file last_update.txt holds a time to the second, here the  *)
(* sequence of that one time.                                               *)

TicksPerSecond == 2

Day == 86400 * TicksPerSecond

MaxDays == 3

\* pd.Timestamp.now().strftime("%Y-%m-%d %H:%M:%S"), read back by
\* pd.to_datetime: the fraction of the second is dropped
written_timestamp(now) == now - (now % TicksPerSecond)

\* whole days of a difference, rounded up
days_started(delta) == (delta + Day - 1) \div Day

\* Timedelta.days: the whole days of a difference
days(delta) == delta \div Day

\* force_update after the staleness check of lines 24 to 30
must_download(force_update, max_stale_days, now, recorded) ==
    IF recorded # None
    THEN IF days(now - recorded[1]) > max_stale_days THEN TRUE ELSE force_update
    ELSE TRUE

Downloading == "Downloading companyfacts.zip..."

Skipping ==
    "Data not stale. Skipping download. To override, set force_update=True or change max_stale_days."

\* how a call ended and the first line it printed
Printed(kind, message) ==
    [kind |-> kind, val |-> 0, tag |-> "", row |-> <<>>, detail |-> message]

\* requests.get and the unzipping go through, or one of them raises
Transfers == {"ok", "ConnectionError", "BadZipFile"}

StaleDays == {-1, 0, 1}

InitDownload ==
    /\ stock = Stock(Ticker, process_sec_json(<<>>))
    /\ pc = "idle"
    /\ call = NoCall
    /\ result = NoResult
    /\ tasks = NoTasks
    /\ requests = <<>>
    /\ clock = 0
    /\ last_update = None

\* download_sec_data(force_update, max_stale_days)
DownloadSecData ==
    /\ \E force_update \in BOOLEAN, max_stale_days \in StaleDays,
          transfer \in Transfers :
          /\ call' = [op |-> "download_sec_data", force_update |-> force_update,
                      max_stale_days |-> max_stale_days, at |-> clock]
          /\ IF must_download(force_update, max_stale_days, clock, last_update)
             THEN IF transfer = "ok"
                  THEN /\ result' = Printed("ok", Downloading)
                       /\ last_update' = <<written_timestamp(clock)>>
                  ELSE /\ result' = Printed(transfer, Downloading)
                       /\ last_update' = last_update
             ELSE /\ result' = Printed("ok", Skipping)
                  /\ last_update' = last_update
    /\ pc' = "done"
    /\ UNCHANGED <<stock, tasks, requests, clock>>

\* time passes between two calls: a tick into a second, a tick less than a
\* day, or a day
Pass ==
    /\ \E wait \in {Day - 1, Day}
                     \cup (IF clock % TicksPerSecond = 0 THEN {1} ELSE {}) :
          /\ clock + wait <= MaxDays * Day
          /\ clock' = clock + wait
    /\ UNCHANGED <<stock, pc, call, result, tasks, requests, last_update>>

NextDownload == DownloadSecData \/ Pass

SpecDownload == InitDownload /\ [][NextDownload]_vars

-----------------------------------------------------------------------------
(* Claims about download_sec_data *)

\* the step is a call of download_sec_data
Called == clock' = clock

\* the call downloads exactly when force_update is true, last_update.txt
\* does not exist, or the recorded update is more than max_stale_days whole
\* days old; a download that goes through writes the current time, to the
\* second, and any other call leaves the file as it is
DownloadRule ==
    /\ (result'.detail = Downloading) <=>
          \/ call'.force_update
          \/ last_update = None
          \/ /\ last_update # None
             /\ clock - last_update[1] >= (call'.max_stale_days + 1) * Day
    /\ IF result'.detail = Downloading /\ result'.kind = "ok"
       THEN /\ last_update' # None
            /\ last_update'[1] <= clock
            /\ clock - last_update'[1] < TicksPerSecond
            /\ last_update'[1] % TicksPerSecond = 0
       ELSE last_update' = last_update

SameDay(a, b) == a \div Day = b \div Day

\* the call does not force and allows no negative staleness
Lenient == ~call'.force_update /\ call'.max_stale_days >= 0

\* C30: download_sec_data downloads exactly when force_update is true, or
\* last_update.txt does not exist, or the recorded update is more than
\* max_stale_days whole days old, and every download writes the current time
\* to last_update.txt; so after any sequence of calls a following call with
\* force_update = false and max_stale_days >= 0 made within the same day
\* performs no download and leaves last_update.txt unchanged.
C30_NoDownloadAfterAnyCall ==
    [][Called =>
          /\ DownloadRule
          /\ (call.op = "download_sec_data" /\ SameDay(call.at, clock)
                 /\ Lenient) =>
                /\ result'.detail = Skipping
                /\ last_update' = last_update]_vars

\* C30 amended: the download rule as above, where a download that goes
\* through writes the current time and one that raises writes nothing; so a
\* call with force_update = false and max_stale_days >= 0 made on the
\* calendar day of a completed download (the day last_update.txt records)
\* performs no download and leaves last_update.txt unchanged.
C30_NoDownloadAfterDownload ==
    [][Called =>
          /\ DownloadRule
          /\ (last_update # None /\ SameDay(last_update[1], clock) /\ Lenient) =>
                /\ result'.detail = Skipping
                /\ last_update' = last_update]_vars

\* C30 witness: a tick less than a day after the download was recorded, a
\* call that tolerates no stale day did not download
C30_Witness ==
    /\ Done("download_sec_data")
    /\ ~call.force_update
    /\ call.max_stale_days = 0
    /\ result.detail = Skipping
    /\ last_update # None
    /\ SameDay(last_update[1], clock)
    /\ clock - last_update[1] = Day - 1

====
